---------------------------- MODULE Spec2Model ----------------------------
(***************************************************************************)
(* Four-axis milling: visibility analysis, frequency restoration and the   *)
(* post-restoration recheck, modelled from the C++ sources.                *)
(*                                                                         *)
(* Numbers.  A coordinate is an integer (a fixed-point double).  Sums,     *)
(* differences and products are exact; a division (by the neighbour count, *)
(* by 2 in the binary search) rounds down to the grid, as a double         *)
(* division rounds to the nearest representable number.  A barycentre      *)
(* (v1+v2+v3)/3 is never divided: the model compares 3*barycentre.         *)
(*                                                                         *)
(* Normals.  cg3 computes a face normal as the normalised cross product    *)
(* (v2-v1) x (v3-v1).  The model keeps the cross product itself, and       *)
(* compares  n.d >= cos(angle)  on it.  A zero-area face has the normal    *)
(* 0/0 = NaN, for which every comparison (>=, <) is false.                 *)
(***************************************************************************)
EXTENDS Integers, Sequences, FiniteSets, TLC

(***************************************************************************)
(* Vectors                                                                 *)
(***************************************************************************)
Vec(x, y, z) == <<x, y, z>>

Add(a, b) == <<a[1] + b[1], a[2] + b[2], a[3] + b[3]>>

Sub(a, b) == <<a[1] - b[1], a[2] - b[2], a[3] - b[3]>>

Neg(a) == <<-a[1], -a[2], -a[3]>>

Dot(a, b) == a[1] * b[1] + a[2] * b[2] + a[3] * b[3]

Cross(a, b) == <<a[2] * b[3] - a[3] * b[2],
                 a[3] * b[1] - a[1] * b[3],
                 a[1] * b[2] - a[2] * b[1]>>

\* operator/ of a point by a scalar, rounded down to the grid
DivVec(a, n) == <<a[1] \div n, a[2] \div n, a[3] \div n>>

ZeroVec == <<0, 0, 0>>

Min2(a, b) == IF a < b THEN a ELSE b

Max2(a, b) == IF a > b THEN a ELSE b

(***************************************************************************)
(* Meshes.  A mesh is a record [v |-> vertices, f |-> faces]: v maps the   *)
(* vertex ids 0..nV-1 to points, f maps the face ids 0..nF-1 to triples of *)
(* vertex ids.  Face normals are derived from the vertices.                *)
(***************************************************************************)
numberFaces(mesh) == Cardinality(DOMAIN mesh.f)

numberVertices(mesh) == Cardinality(DOMAIN mesh.v)

FaceIds(mesh) == DOMAIN mesh.f

VertexIds(mesh) == DOMAIN mesh.v

\* Triangle3::normal before normalisation: (v2 - v1) x (v3 - v1)
triangleNormal(p1, p2, p3) == Cross(Sub(p2, p1), Sub(p3, p1))

faceNormal(mesh, fId) ==
    triangleNormal(mesh.v[mesh.f[fId][1]], mesh.v[mesh.f[fId][2]], mesh.v[mesh.f[fId][3]])

\* 3 * barycentre of a face
barycenter3(mesh, fId) ==
    Add(Add(mesh.v[mesh.f[fId][1]], mesh.v[mesh.f[fId][2]]), mesh.v[mesh.f[fId][3]])

(***************************************************************************)
(* The heightfield limit cos(heightfieldAngle) is given by its square      *)
(* lim = <<num, den>>, cos^2 = num/den, for an angle in (0, 90] degrees.   *)
(* cos(M_PI/2) is 6.1e-17 in double arithmetic, not 0: at 90 degrees       *)
(* (num = 0) a unit normal passes exactly when its dot product is > 0.     *)
(***************************************************************************)
isNaN(n) == n = ZeroVec

\* normalised(n) . d >= cos(angle), d a unit vector along an axis
dotGeqLimit(n, d, lim) ==
    /\ ~isNaN(n)
    /\ Dot(n, d) > 0
    /\ \/ lim[1] = 0
       \/ lim[2] * Dot(n, d) * Dot(n, d) >= lim[1] * Dot(n, n)

\* normalised(n) . d < cos(angle)
dotLessLimit(n, d, lim) ==
    /\ ~isNaN(n)
    /\ ~dotGeqLimit(n, d, lim)

(***************************************************************************)
(* Rotations by quarter turns, as cg3::rotationMatrix builds them for the  *)
(* step angles the model uses.  q counts quarter turns (q * M_PI/2).       *)
(***************************************************************************)
\* one quarter turn about the x axis: (x, y, z) -> (x, -z, y)
rotX90(p) == <<p[1], -p[3], p[2]>>

\* one quarter turn about the y axis: (x, y, z) -> (z, y, -x)
rotY90(p) == <<p[3], p[2], -p[1]>>

RECURSIVE rotateX(_, _)
rotateX(p, q) ==
    IF q = 0 THEN p ELSE rotateX(rotX90(p), (q - 1) % 4)

\* EigenMesh::rotate about x by q quarter turns (q taken modulo 4)
meshRotateX(mesh, q) ==
    [mesh EXCEPT !.v = [i \in DOMAIN mesh.v |-> rotateX(mesh.v[i], q % 4)]]

meshRotateY90(mesh) ==
    [mesh EXCEPT !.v = [i \in DOMAIN mesh.v |-> rotY90(mesh.v[i])]]

(***************************************************************************)
(* Planar predicates on the projection to the z plane (x, y).              *)
(***************************************************************************)
orient2(a, b, c) == (b[1] - a[1]) * (c[2] - a[2]) - (b[2] - a[2]) * (c[1] - a[1])

Scale3(p) == <<3 * p[1], 3 * p[2], 3 * p[3]>>

\* The vertical segment through the point P/3 meets the (closed) triangle
\* a, b, c: CGAL's segment/triangle intersection, borders included.
segmentMeetsTriangle(P, a, b, c) ==
    LET a3 == Scale3(a)
        b3 == Scale3(b)
        c3 == Scale3(c)
        o1 == orient2(a3, b3, P)
        o2 == orient2(b3, c3, P)
        o3 == orient2(c3, a3, P)
    IN  /\ \/ (o1 >= 0 /\ o2 >= 0 /\ o3 >= 0)
           \/ (o1 <= 0 /\ o2 <= 0 /\ o3 <= 0)
        /\ Min2(Min2(a3[1], b3[1]), c3[1]) <= P[1]
        /\ P[1] <= Max2(Max2(a3[1], b3[1]), c3[1])
        /\ Min2(Min2(a3[2], b3[2]), c3[2]) <= P[2]
        /\ P[2] <= Max2(Max2(a3[2], b3[2]), c3[2])

\* sortTriangle2DPointsAndReorderCounterClockwise: the same three points,
\* counter-clockwise
counterClockwise(t) ==
    IF orient2(t[1], t[2], t[3]) < 0 THEN <<t[1], t[3], t[2]>> ELSE t

\* every vertex of t2 lies on or outside the edge i of the counter-clockwise t1
edgeSeparates(t1, i, t2) ==
    LET p == t1[i]
        q == t1[(i % 3) + 1]
    IN  \A j \in 1..3 : orient2(p, q, t2[j]) <= 0

\* cg3::triangleOverlap: the interiors of two counter-clockwise triangles
\* meet (a shared border or vertex is no overlap)
triangleOverlap(t1, t2) ==
    /\ \A i \in 1..3 : ~edgeSeparates(t1, i, t2)
    /\ \A i \in 1..3 : ~edgeSeparates(t2, i, t1)

\* the projection of a face on the z plane, as a counter-clockwise triangle
projectedTriangle(mesh, fId) ==
    counterClockwise(<<mesh.v[mesh.f[fId][1]], mesh.v[mesh.f[fId][2]], mesh.v[mesh.f[fId][3]]>>)


(***************************************************************************)
(* cg3::Array2D<int>: a matrix is a function from the rows 0..sizeX-1 to   *)
(* functions from the columns 0..sizeY-1 (the faces) to the entries.       *)
(***************************************************************************)
sizeX(visibility) == Cardinality(DOMAIN visibility)

\* visibility.resize(rows, cols); visibility.fill(0)
zeroMatrix(rows, cols) == [i \in 0..(rows - 1) |-> [j \in 0..(cols - 1) |-> 0]]

\* visibility(i, j) = 1 for a face index j that may be -1.  The element
\* written is the one at the linear index i * sizeY + j of the row-major
\* storage: for j = -1 and i > 0 that is the last entry of row i - 1, and
\* for i = 0 it lies before the storage, outside the matrix.
writeOne(visibility, i, j, cols) ==
    IF j >= 0
    THEN [visibility EXCEPT ![i][j] = 1]
    ELSE IF i > 0
         THEN [visibility EXCEPT ![i - 1][cols - 1] = 1]
         ELSE visibility

(***************************************************************************)
(* Ray shooting                                                            *)
(***************************************************************************)
\* tree.getIntersectedEigenFaces: the faces met by the vertical segment
\* through the barycentre of faceIndex
barIntersection(mesh, faceIndex) ==
    {g \in FaceIds(mesh) :
        segmentMeetsTriangle(barycenter3(mesh, faceIndex),
                             mesh.v[mesh.f[g][1]], mesh.v[mesh.f[g][2]], mesh.v[mesh.f[g][3]])}

zDirMax == <<0, 0, 1>>

zDirMin == <<0, 0, -1>>

\* The loop over barIntersection for the +z direction: the intersected face
\* of greatest barycentre z among those within the heightfield limit, or -1.
\* The faces are visited in ascending order; of two candidates of equal
\* barycentre z the first visited is kept (the comparison is strict).
maxZFaceOf(mesh, faceIndex, lim) ==
    LET cand == {g \in barIntersection(mesh, faceIndex) :
                    dotGeqLimit(faceNormal(mesh, g), zDirMax, lim)}
        top  == {g \in cand : \A h \in cand : barycenter3(mesh, h)[3] <= barycenter3(mesh, g)[3]}
    IN  IF cand = {} THEN -1 ELSE CHOOSE g \in top : \A h \in top : g <= h

\* The same for the -z direction: the face of least barycentre z.
minZFaceOf(mesh, faceIndex, lim) ==
    LET cand == {g \in barIntersection(mesh, faceIndex) :
                    dotGeqLimit(faceNormal(mesh, g), zDirMin, lim)}
        low  == {g \in cand : \A h \in cand : barycenter3(mesh, h)[3] >= barycenter3(mesh, g)[3]}
    IN  IF cand = {} THEN -1 ELSE CHOOSE g \in low : \A h \in low : g <= h

\* One target face of getVisibilityRayShootingOnZ: the two writes.  r is
\* [visibility, fault]; fault records that an assertion of the function
\* (at least 2 intersections, maxZFace >= 0, minZFace >= 0) has failed.
rayShootFace(mesh, faceIndex, directionIndex, oppositeDirectionIndex, r, lim) ==
    LET maxZFace == maxZFaceOf(mesh, faceIndex, lim)
        minZFace == minZFaceOf(mesh, faceIndex, lim)
        cols     == numberFaces(mesh)
        v1       == writeOne(r.visibility, directionIndex, maxZFace, cols)
        v2       == IF oppositeDirectionIndex >= 0
                    THEN writeOne(v1, oppositeDirectionIndex, minZFace, cols)
                    ELSE v1
    IN  [visibility |-> v2,
         fault |-> \/ r.fault
                   \/ Cardinality(barIntersection(mesh, faceIndex)) < 2
                   \/ maxZFace < 0
                   \/ (oppositeDirectionIndex >= 0 /\ minZFace < 0)]

RECURSIVE rayShootFrom(_, _, _, _, _, _)
rayShootFrom(mesh, faceIndex, directionIndex, oppositeDirectionIndex, r, lim) ==
    IF faceIndex >= numberFaces(mesh)
    THEN r
    ELSE rayShootFrom(mesh, faceIndex + 1, directionIndex, oppositeDirectionIndex,
                      rayShootFace(mesh, faceIndex, directionIndex, oppositeDirectionIndex, r, lim),
                      lim)

\* getVisibilityRayShootingOnZ over all the target faces 0..nF-1
getVisibilityRayShootingOnZ(mesh, directionIndex, oppositeDirectionIndex, r, lim) ==
    rayShootFrom(mesh, 0, directionIndex, oppositeDirectionIndex, r, lim)

(***************************************************************************)
(* Projection                                                              *)
(***************************************************************************)
\* TriangleZComparator: the least z of the three vertices of a face
minZOfFace(mesh, fId) ==
    Min2(Min2(mesh.v[mesh.f[fId][1]][3], mesh.v[mesh.f[fId][2]][3]), mesh.v[mesh.f[fId][3]][3])

\* std::sort by TriangleZComparator.  For the at most 16 faces of the
\* meshes modelled std::sort is an insertion sort, which keeps faces of
\* equal key in ascending order of their index.
RECURSIVE sortedByMinZ(_, _)
sortedByMinZ(mesh, rest) ==
    IF rest = {}
    THEN <<>>
    ELSE LET first == CHOOSE g \in rest : \A h \in rest :
                          \/ minZOfFace(mesh, g) < minZOfFace(mesh, h)
                          \/ (minZOfFace(mesh, g) = minZOfFace(mesh, h) /\ g <= h)
         IN  <<first>> \o sortedByMinZ(mesh, rest \ {first})

orderedZFaces(mesh) == sortedByMinZ(mesh, FaceIds(mesh))

\* getVisibilityProjectionOnZ for one face: st is [visibility, tree], tree
\* the set of faces whose projection has been inserted in the AABB tree.
projectFace(mesh, faceId, directionIndex, direction, st, lim) ==
    IF dotGeqLimit(faceNormal(mesh, faceId), direction, lim)
    THEN LET triangle == projectedTriangle(mesh, faceId)
             intersectionFound ==
                 \E g \in st.tree : triangleOverlap(triangle, projectedTriangle(mesh, g))
         IN  IF ~intersectionFound
             THEN [visibility |-> [st.visibility EXCEPT ![directionIndex][faceId] = 1],
                   tree |-> st.tree \cup {faceId}]
             ELSE st
    ELSE st

\* the loop from the max z-coordinate face down: i = size-1 .. 0
RECURSIVE projectDown(_, _, _, _, _, _)
projectDown(mesh, ordered, i, directionIndex, st, lim) ==
    IF i < 1
    THEN st
    ELSE projectDown(mesh, ordered, i - 1, directionIndex,
                     projectFace(mesh, ordered[i], directionIndex, zDirMax, st, lim), lim)

\* the loop from the min z-coordinate face up: i = 0 .. size-1
RECURSIVE projectUp(_, _, _, _, _, _)
projectUp(mesh, ordered, i, directionIndex, st, lim) ==
    IF i > Len(ordered)
    THEN st
    ELSE projectUp(mesh, ordered, i + 1, directionIndex,
                   projectFace(mesh, ordered[i], directionIndex, zDirMin, st, lim), lim)

\* getVisibilityProjectionOnZ over all the faces; r is [visibility, fault]
getVisibilityProjectionOnZ(mesh, directionIndex, oppositeDirectionIndex, r, lim) ==
    LET ordered == orderedZFaces(mesh)
        up      == projectDown(mesh, ordered, Len(ordered), directionIndex,
                               [visibility |-> r.visibility, tree |-> {}], lim)
        down    == IF oppositeDirectionIndex >= 0
                   THEN projectUp(mesh, ordered, 1, oppositeDirectionIndex,
                                  [visibility |-> up.visibility, tree |-> {}], lim)
                   ELSE up
    IN  [visibility |-> down.visibility, fault |-> r.fault]


(***************************************************************************)
(* computeVisibilityProjectionRay, detectNonVisibleFaces, getVisibility    *)
(***************************************************************************)
\* M_PI / halfNDirections in quarter turns, for the 1 or 2 half directions
\* whose rotations keep the integer grid
stepQuarters(halfNDirections) == IF halfNDirections = 1 THEN 2 ELSE 1

\* one strategy for one pair of opposite directions
checkOnZ(checkMode, mesh, directionIndex, oppositeDirectionIndex, r, lim) ==
    IF checkMode = "RAYSHOOTING"
    THEN getVisibilityRayShootingOnZ(mesh, directionIndex, oppositeDirectionIndex, r, lim)
    ELSE getVisibilityProjectionOnZ(mesh, directionIndex, oppositeDirectionIndex, r, lim)

\* the loop "for each direction": c is [rotatingMesh, dir, r, directions]
RECURSIVE forEachDirection(_, _, _, _, _)
forEachDirection(dirIndex, halfNDirections, c, lim, checkMode) ==
    IF dirIndex >= halfNDirections
    THEN c
    ELSE LET r2 == checkOnZ(checkMode, c.rotatingMesh, dirIndex, halfNDirections + dirIndex, c.r, lim)
             q  == stepQuarters(halfNDirections)
         IN  forEachDirection(dirIndex + 1, halfNDirections,
                 [rotatingMesh |-> meshRotateX(c.rotatingMesh, 4 - q),
                  dir          |-> rotateX(c.dir, q),
                  r            |-> r2,
                  directions   |-> [c.directions EXCEPT ![dirIndex] = c.dir,
                                                        ![halfNDirections + dirIndex] = Neg(c.dir)]],
                 lim, checkMode)

\* the loops that set the visibility of the extremes to 1 in a row
RECURSIVE setExtremes(_, _, _, _)
setExtremes(visibility, row, extremes, i) ==
    IF i > Len(extremes)
    THEN visibility
    ELSE setExtremes([visibility EXCEPT ![row][extremes[i]] = 1], row, extremes, i + 1)

\* the state of the loop "for each direction" before its first turn
initialDirections(mesh, halfNDirections) ==
    [rotatingMesh |-> mesh,
     dir          |-> <<0, 0, 1>>,
     r            |-> [visibility |-> zeroMatrix(halfNDirections * 2 + 2, numberFaces(mesh)),
                       fault |-> FALSE],
     directions   |-> [k \in 0..(halfNDirections * 2 + 1) |-> ZeroVec]]

\* the rows minIndex and maxIndex of the x directions: checked on the mesh
\* turned about y, or set to 1 for the extremes
xDirections(mesh, r, minIndex, maxIndex, lim, includeXDirections, minExtremes, maxExtremes, checkMode) ==
    IF includeXDirections
    THEN checkOnZ(checkMode, meshRotateY90(mesh), minIndex, maxIndex, r, lim)
    ELSE [visibility |-> setExtremes(setExtremes(r.visibility, minIndex, minExtremes, 1),
                                     maxIndex, maxExtremes, 1),
          fault |-> r.fault]

\* the outputs of computeVisibilityProjectionRay: c1 is the state of the
\* loop after its last turn, rx the matrix with the x rows
visibilityOutputs(c1, rx, halfNDirections) ==
    [visibility |-> rx.visibility,
     directions |-> [c1.directions EXCEPT ![halfNDirections * 2] = <<-1, 0, 0>>,
                                          ![halfNDirections * 2 + 1] = <<1, 0, 0>>],
     angles     |-> [k \in 0..(halfNDirections * 2 - 1) |-> k * stepQuarters(halfNDirections)],
     fault      |-> rx.fault]

withXDirections(mesh, c1, halfNDirections, lim, includeXDirections, minExtremes, maxExtremes, checkMode) ==
    CHOOSE out \in {visibilityOutputs(c1, rx, halfNDirections) :
                       rx \in {xDirections(mesh, c1.r, halfNDirections * 2, halfNDirections * 2 + 1, lim,
                                           includeXDirections, minExtremes, maxExtremes, checkMode)}} : TRUE

\* The loop over the directions runs once; the x rows are added to its
\* result.
computeVisibilityProjectionRay(mesh, nDirections, lim, includeXDirections, minExtremes, maxExtremes, checkMode) ==
    CHOOSE out \in {withXDirections(mesh, c1, nDirections \div 2, lim, includeXDirections,
                                    minExtremes, maxExtremes, checkMode) :
                       c1 \in {forEachDirection(0, nDirections \div 2,
                                                initialDirections(mesh, nDirections \div 2),
                                                lim, checkMode)}} : TRUE

\* detectNonVisibleFaces: the loop over the faces from faceId on, appending
\* to nonVisibleFaces
RECURSIVE detectFrom(_, _, _, _)
detectFrom(visibility, cols, faceId, nonVisibleFaces) ==
    IF faceId >= cols
    THEN nonVisibleFaces
    ELSE LET found == \E i \in DOMAIN visibility : visibility[i][faceId] = 1
         IN  detectFrom(visibility, cols, faceId + 1,
                        IF ~found THEN Append(nonVisibleFaces, faceId) ELSE nonVisibleFaces)

\* detectNonVisibleFaces without nonVisibleFaces.clear()
detectNonVisibleFacesNoClear(visibility, cols, old) ==
    detectFrom(visibility, cols, 0, old)

\* nonVisibleFaces.clear() and the loop; old is the previous content
detectNonVisibleFaces(visibility, cols, old) ==
    detectFrom(visibility, cols, 0, <<>>)


\* the outputs of getVisibility: those of computeVisibilityProjectionRay (r)
\* and the non-visible faces detected on its matrix
detectedOutputs(r, cols, oldNonVisibleFaces) ==
    [visibility      |-> r.visibility,
     directions      |-> r.directions,
     angles          |-> r.angles,
     nonVisibleFaces |-> detectNonVisibleFaces(r.visibility, cols, oldNonVisibleFaces),
     fault           |-> r.fault]

\* getVisibility for the two modes that need no OpenGL.  The matrix is
\* computed once and the detection runs on that value.
getVisibility(mesh, nDirections, lim, includeXDirections, minExtremes, maxExtremes, checkMode, oldNonVisibleFaces) ==
    CHOOSE out \in {detectedOutputs(r, numberFaces(mesh), oldNonVisibleFaces) :
                       r \in {computeVisibilityProjectionRay(mesh, nDirections, lim, includeXDirections,
                                                             minExtremes, maxExtremes, checkMode)}} : TRUE

(***************************************************************************)
(* Extremes (cutExtremes)                                                  *)
(***************************************************************************)
\* triangleComparator: c1 < c2 on the barycentres, lexicographic on x, y, z
centroidLess(mesh, f1, f2) ==
    LET c1 == barycenter3(mesh, f1)
        c2 == barycenter3(mesh, f2)
    IN  \/ c1[1] < c2[1]
        \/ (c1[1] = c2[1] /\ c1[2] < c2[2])
        \/ (c1[1] = c2[1] /\ c1[2] = c2[2] /\ c1[3] < c2[3])

RECURSIVE sortedByCentroid(_, _)
sortedByCentroid(mesh, rest) ==
    IF rest = {}
    THEN <<>>
    ELSE LET first == CHOOSE g \in rest : \A h \in rest :
                          \/ centroidLess(mesh, g, h)
                          \/ (~centroidLess(mesh, h, g) /\ g <= h)
         IN  <<first>> \o sortedByCentroid(mesh, rest \ {first})

\* normal . axis >= -epsilon for the unit normal of a face: false for NaN
dotGeqMinusEps(n, axis) == ~isNaN(n) /\ Dot(n, axis) >= 0

\* the walk from the low end: i = 0, 1, ... while the test holds.  The walk
\* has no bound of its own; at i = size the read is past the end (fault).
RECURSIVE walkMin(_, _, _, _)
walkMin(mesh, fIndices, i, acc) ==
    IF i > Len(fIndices)
    THEN [extreme |-> acc, fault |-> TRUE]
    ELSE IF dotGeqMinusEps(faceNormal(mesh, fIndices[i]), <<-1, 0, 0>>)
         THEN walkMin(mesh, fIndices, i + 1, Append(acc, fIndices[i]))
         ELSE [extreme |-> acc, fault |-> FALSE]

\* the walk from the high end: i = size-1, size-2, ...
RECURSIVE walkMax(_, _, _, _)
walkMax(mesh, fIndices, i, acc) ==
    IF i < 1
    THEN [extreme |-> acc, fault |-> TRUE]
    ELSE IF dotGeqMinusEps(faceNormal(mesh, fIndices[i]), <<1, 0, 0>>)
         THEN walkMax(mesh, fIndices, i - 1, Append(acc, fIndices[i]))
         ELSE [extreme |-> acc, fault |-> FALSE]

cutExtremes(mesh) ==
    LET fIndices == sortedByCentroid(mesh, FaceIds(mesh))
        lo == walkMin(mesh, fIndices, 1, <<>>)
        hi == walkMax(mesh, fIndices, Len(fIndices), <<>>)
    IN  [minExtreme |-> lo.extreme, maxExtreme |-> hi.extreme, fault |-> lo.fault \/ hi.fault]

(***************************************************************************)
(* Frequency restoration: the pure parts                                   *)
(***************************************************************************)
\* cg3::libigl::getVertexVertexAdjacencies: the vertices sharing a face with vId
vertexVertexAdjacencies(mesh, vId) ==
    {u \in VertexIds(mesh) : u # vId /\ \E f \in FaceIds(mesh) :
        /\ \E k \in 1..3 : mesh.f[f][k] = u
        /\ \E k \in 1..3 : mesh.f[f][k] = vId}

\* cg3::libigl::getVertexFaceAdjacencies: the faces incident to vId
vertexFaceAdjacencies(mesh, vId) ==
    {f \in FaceIds(mesh) : \E k \in 1..3 : mesh.f[f][k] = vId}

RECURSIVE sumOfVertices(_, _)
sumOfVertices(mesh, S) ==
    IF S = {}
    THEN ZeroVec
    ELSE LET u == CHOOSE u \in S : TRUE
         IN  Add(mesh.v[u], sumOfVertices(mesh, S \ {u}))

\* the sum over the neighbours of (currentPoint - neighbour), divided by
\* their number
differentialCoordinate(mesh, vId) ==
    LET neighbors == vertexVertexAdjacencies(mesh, vId)
        n == Cardinality(neighbors)
    IN  DivVec(Sub(<<n * mesh.v[vId][1], n * mesh.v[vId][2], n * mesh.v[vId][3]>>,
                   sumOfVertices(mesh, neighbors)), n)

computeDifferentialCoordinates(mesh) ==
    [vId \in VertexIds(mesh) |-> differentialCoordinate(mesh, vId)]

\* differential coordinate + centroid of the neighbours in targetMesh; the
\* adjacencies are those of the original mesh
getTargetPoint(targetMesh, differentialCoordinates, vId, adjMesh) ==
    LET neighbors == vertexVertexAdjacencies(adjMesh, vId)
        delta == DivVec(sumOfVertices(targetMesh, neighbors), Cardinality(neighbors))
    IN  Add(differentialCoordinates[vId], delta)

\* the triangle of face fId with newPoint in the place of vertex vId
triangleWithNewPoint(targetMesh, fId, vId, newPoint) ==
    LET face == targetMesh.f[fId]
    IN  IF face[1] = vId
        THEN <<newPoint, targetMesh.v[face[2]], targetMesh.v[face[3]]>>
        ELSE IF face[2] = vId
             THEN <<targetMesh.v[face[1]], newPoint, targetMesh.v[face[3]]>>
             ELSE <<targetMesh.v[face[1]], targetMesh.v[face[2]], newPoint>>

\* isHeightFieldValid with the test inverted inside the loop: true as soon
\* as one incident face keeps its constraint
isHeightFieldValidOneFace(targetMesh, directions, association, vId, newPoint, lim, adjMesh) ==
    \E fId \in vertexFaceAdjacencies(adjMesh, vId) :
        LET t == triangleWithNewPoint(targetMesh, fId, vId, newPoint)
        IN  ~dotLessLimit(triangleNormal(t[1], t[2], t[3]), directions[association[fId]], lim)

\* false as soon as one incident face has  normal . direction < limit
isHeightFieldValid(targetMesh, directions, association, vId, newPoint, lim, adjMesh) ==
    \A fId \in vertexFaceAdjacencies(adjMesh, vId) :
        LET t == triangleWithNewPoint(targetMesh, fId, vId, newPoint)
        IN  ~dotLessLimit(triangleNormal(t[1], t[2], t[3]), directions[association[fId]], lim)

\* 0.5 * (targetPoint + currentPoint)
midpoint(targetPoint, currentPoint) == DivVec(Add(targetPoint, currentPoint), 2)

setVertex(mesh, vId, p) == [mesh EXCEPT !.v[vId] = p]


(***************************************************************************)
(* Bounds and inputs                                                       *)
(***************************************************************************)
\* #define BINARY_SEARCH_ITERATIONS 10
BINARY_SEARCH_ITERATIONS == 10

\* the greatest number of sweeps (iterations) a run asks for
MaxIterations == 2

\* cos^2 of the heightfield angles of the runs: 90 and 45 degrees
HeightfieldLimits == {<<0, 1>>, <<1, 2>>}

\* the direction counts whose step angle is a multiple of a quarter turn
DirectionCounts == {2, 4}

CheckModes == {"RAYSHOOTING", "PROJECTION"}

\* assertions compiled in (debug) or out (release, NDEBUG)
Builds == {"debug", "release"}

makeMesh(vs, fs) ==
    [v |-> [i \in 0..(Len(vs) - 1) |-> vs[i + 1]],
     f |-> [i \in 0..(Len(fs) - 1) |-> fs[i + 1]]]

TetraFaces == <<<<0, 2, 1>>, <<0, 1, 3>>, <<0, 3, 2>>, <<1, 2, 3>>>>

DartFaces == <<<<0, 4, 1>>, <<0, 1, 5>>, <<1, 4, 2>>, <<1, 2, 5>>,
               <<2, 4, 3>>, <<2, 3, 5>>, <<3, 4, 0>>, <<3, 0, 5>>>>

\* a tetrahedron whose apex is vertex 0
SpikeFaces == <<<<1, 3, 2>>, <<1, 2, 0>>, <<1, 0, 3>>, <<2, 3, 0>>>>

\* A scene is a detailed mesh and its smoothed copy, of the same topology.
Scenes ==
    { \* a tetrahedron whose apex the smoothing has lowered
      [original |-> makeMesh(<<<<0, 0, 0>>, <<6, 0, 0>>, <<0, 6, 0>>, <<0, 0, 6>>>>, TetraFaces),
       smoothed |-> makeMesh(<<<<0, 0, 0>>, <<6, 0, 0>>, <<0, 6, 0>>, <<0, 0, 3>>>>, TetraFaces)],
      \* a dart-shaped bipyramid (an overhang seen from +z), notch smoothed out
      [original |-> makeMesh(<<<<0, 0, 2>>, <<8, 0, 0>>, <<2, 0, 2>>, <<4, 0, 4>>,
                               <<1, 2, 2>>, <<1, -2, 2>>>>, DartFaces),
       smoothed |-> makeMesh(<<<<0, 0, 2>>, <<8, 0, 0>>, <<3, 0, 2>>, <<4, 0, 4>>,
                               <<1, 2, 2>>, <<1, -2, 2>>>>, DartFaces)],
      \* a spike: a tetrahedron whose apex the smoothing has pulled back over
      \* the base from far along +x
      [original |-> makeMesh(<<<<1026, 2, 4>>, <<0, 0, 0>>, <<6, 0, 0>>, <<0, 6, 0>>>>, SpikeFaces),
       smoothed |-> makeMesh(<<<<2, 2, 4>>, <<0, 0, 0>>, <<6, 0, 0>>, <<0, 6, 0>>>>, SpikeFaces)] }

emptyMesh == [v |-> <<>>, f |-> <<>>]

\* a default-constructed Data
emptyData ==
    [directions |-> <<>>, angles |-> <<>>, visibility |-> <<>>, nonVisibleFaces |-> <<>>,
     association |-> <<>>, minExtremes |-> <<>>, maxExtremes |-> <<>>,
     restoredMesh |-> emptyMesh, restoredMeshAssociation |-> <<>>,
     restoredMeshVisibility |-> <<>>, restoredMeshNonVisibleFaces |-> <<>>]

(***************************************************************************)
(* State                                                                   *)
(***************************************************************************)
VARIABLES
    originalMesh,      \* the detailed mesh
    smoothedMesh,      \* the smoothed mesh
    data,              \* the Data aggregate
    heightfieldAngle,  \* cos^2 of the limit angle of the run
    build,             \* "debug" or "release"
    checkMode,         \* the mode of the last visibility check
    pc,                \* the stage reached
    iterations,        \* restoreFrequencies: the sweeps asked for
    i,                 \* restoreFrequencies: the sweep index
    vId,               \* restoreFrequenciesValidHeightfields: the vertex
    count,             \* the binary search counter
    currentPoint,
    targetPoint,
    differentialCoordinates,
    sweepStart,        \* history: the target mesh when the sweep began
    returned           \* checkVisibilityAfterFrequenciesAreRestored: result

\* The state of a run of the functions of fouraxis.cpp on the smoothed mesh.
VARIABLES
    planePc,           \* the function of fouraxis.cpp that has returned last
    numberPlanes,      \* checkVisibilityAllPlanes: the number of planes
    planeVisibility,   \* the matrix handed to minimizeNumberPlanes
    survivedPlanes,    \* minimizeNumberPlanes: the list it fills
    segmentation,      \* getAssociation: the vector it returns
    gurobi,            \* GUROBI_DEFINED: the solver is compiled in
    caught             \* the catch blocks of fouraxis.cpp that have run

planeVars == <<planePc, numberPlanes, planeVisibility, survivedPlanes, segmentation,
               gurobi, caught>>

\* The state of a call of computeEntireAlgorithm.
VARIABLES
    args,              \* nDirections, fixExtremeAssociation, setCoverage
    called             \* history: the stages called so far, in order

entireVars == <<args, called>>

\* The state of the rotation loop of checkVisibilityAllPlanes.
VARIABLES
    stepAngle,         \* double stepAngle = 180 / numberPlanes, in degrees
    rotations          \* the calls of meshEigen.rotate(rotation) made so far

angleVars == <<stepAngle, rotations>>

vars == <<originalMesh, smoothedMesh, data, heightfieldAngle, build, checkMode,
          pc, iterations, i, vId, count, currentPoint, targetPoint,
          differentialCoordinates, sweepStart, returned, planeVars, entireVars, angleVars>>

\* the arguments where computeEntireAlgorithm is not the caller
noArguments == [nDirections |-> 0, fixExtremeAssociation |-> FALSE, setCoverage |-> FALSE]

meshVars == <<originalMesh, smoothedMesh>>

runVars == <<heightfieldAngle, build>>

loopVars == <<iterations, i, vId, count, currentPoint, targetPoint,
              differentialCoordinates, sweepStart>>

Init ==
    /\ \E scene \in Scenes :
          /\ originalMesh = scene.original
          /\ smoothedMesh = scene.smoothed
    /\ data = emptyData
    /\ heightfieldAngle \in HeightfieldLimits
    /\ build \in Builds
    /\ checkMode = "PROJECTION"
    /\ pc = "start"
    /\ iterations = 0
    /\ i = 0
    /\ vId = 0
    /\ count = 0
    /\ currentPoint = ZeroVec
    /\ targetPoint = ZeroVec
    /\ differentialCoordinates = <<>>
    /\ sweepStart = emptyMesh
    /\ returned = <<0, 0>>
    /\ planePc = "idle"
    /\ numberPlanes = 0
    /\ planeVisibility = <<>>
    /\ survivedPlanes = <<>>
    /\ segmentation = <<>>
    /\ gurobi = FALSE
    /\ caught = {}
    /\ stepAngle = 0
    /\ rotations = 0
    /\ args = noArguments
    /\ called = <<>>


(***************************************************************************)
(* Stages before restoration                                               *)
(***************************************************************************)
\* selectExtremesOnXAxis(smoothedMesh, data): the extremes of the smoothed
\* mesh.  A walk that runs past the end of the face list ends the run.
SelectExtremes ==
    /\ pc = "start"
    /\ LET e == cutExtremes(smoothedMesh)
       IN  IF e.fault
           THEN /\ pc' = "aborted"
                /\ data' = data
           ELSE /\ pc' = "extremes"
                /\ data' = [data EXCEPT !.minExtremes = e.minExtreme,
                                        !.maxExtremes = e.maxExtreme]
    /\ UNCHANGED <<planeVars, meshVars, runVars, checkMode, loopVars, returned>>

\* getVisibility(smoothedMesh, nDirections, ..., includeXDirections, data,
\* checkMode), run a first time or again with other arguments.  A failed
\* assertion ends a debug run.
CheckVisibility ==
    /\ pc \in {"extremes", "visible"}
    /\ \E nDirections \in DirectionCounts, includeXDirections \in BOOLEAN, mode \in CheckModes :
          \E r \in {getVisibility(smoothedMesh, nDirections, heightfieldAngle, includeXDirections,
                                  data.minExtremes, data.maxExtremes, mode, data.nonVisibleFaces)} :
              /\ checkMode' = mode
              /\ IF r.fault /\ build = "debug"
                 THEN /\ pc' = "aborted"
                      /\ data' = data
                 ELSE /\ pc' = "visible"
                      /\ data' = [data EXCEPT !.visibility = r.visibility,
                                              !.directions = r.directions,
                                              !.angles = r.angles,
                                              !.nonVisibleFaces = r.nonVisibleFaces]
    /\ UNCHANGED <<planeVars, meshVars, runVars, loopVars, returned>>

\* The label the assigner gives a face: a direction that sees it (the first
\* or the last such, by the solver's choice), and for a face no direction
\* sees the first or the last direction of all.
labelOf(visibility, fId, choice) ==
    LET seeing == {d \in DOMAIN visibility : visibility[d][fId] = 1}
        from   == IF seeing = {} THEN DOMAIN visibility ELSE seeing
    IN  IF choice = "first"
        THEN CHOOSE d \in from : \A e \in from : d <= e
        ELSE CHOOSE d \in from : \A e \in from : d >= e

\* the optimised association: one direction index for every face
GetAssociation ==
    /\ pc = "visible"
    /\ \E choice \in {"first", "last"} :
          data' = [data EXCEPT !.association =
                      [fId \in FaceIds(smoothedMesh) |-> labelOf(data.visibility, fId, choice)]]
    /\ pc' = "associated"
    /\ UNCHANGED <<planeVars, meshVars, runVars, checkMode, loopVars, returned>>

(***************************************************************************)
(* restoreFrequencies                                                      *)
(***************************************************************************)
\* the entry of restoreFrequencies up to the loop: the differential
\* coordinates of the original mesh, and the copy of the smoothed mesh
RestoreBegin ==
    /\ pc = "associated"
    /\ iterations' \in 0..MaxIterations
    /\ differentialCoordinates' = computeDifferentialCoordinates(originalMesh)
    /\ data' = [data EXCEPT !.restoredMesh = smoothedMesh]
    /\ i' = 0
    /\ pc' = "loop"
    /\ UNCHANGED <<planeVars, meshVars, runVars, checkMode, vId, count, currentPoint,
                   targetPoint, sweepStart, returned>>

\* for (i < iterations): the call of restoreFrequenciesValidHeightfields
SweepBegin ==
    /\ pc = "loop"
    /\ i < iterations
    /\ vId' = 0
    /\ sweepStart' = data.restoredMesh
    /\ pc' = "vertex"
    /\ UNCHANGED <<planeVars, meshVars, runVars, checkMode, data, iterations, i, count,
                   currentPoint, targetPoint, differentialCoordinates, returned>>

\* VertexBegin with the target point taken from the positions the sweep
\* began with
VertexBeginFromSweepStart ==
    /\ pc = "vertex"
    /\ vId < numberVertices(data.restoredMesh)
    /\ currentPoint' = data.restoredMesh.v[vId]
    /\ targetPoint' = getTargetPoint(sweepStart, differentialCoordinates, vId, originalMesh)
    /\ count' = 0
    /\ pc' = "search"
    /\ UNCHANGED <<planeVars, meshVars, runVars, checkMode, data, iterations, i, vId,
                   differentialCoordinates, sweepStart, returned>>

\* for (vId < numberVertices): current point, target point, count = 0
VertexBegin ==
    /\ pc = "vertex"
    /\ vId < numberVertices(data.restoredMesh)
    /\ currentPoint' = data.restoredMesh.v[vId]
    /\ targetPoint' = getTargetPoint(data.restoredMesh, differentialCoordinates, vId, originalMesh)
    /\ count' = 0
    /\ pc' = "search"
    /\ UNCHANGED <<planeVars, meshVars, runVars, checkMode, data, iterations, i, vId,
                   differentialCoordinates, sweepStart, returned>>

\* the condition of the while loop for the candidate targetPoint
targetIsValid ==
    isHeightFieldValid(data.restoredMesh, data.directions, data.association, vId,
                       targetPoint, heightfieldAngle, originalMesh)

\* Halve without the test of count in the loop condition
HalveWhileInvalid ==
    /\ pc = "search"
    /\ ~targetIsValid
    /\ targetPoint' = midpoint(targetPoint, currentPoint)
    /\ count' = count + 1
    /\ UNCHANGED <<planeVars, meshVars, runVars, checkMode, data, pc, iterations, i, vId,
                   currentPoint, differentialCoordinates, sweepStart, returned>>

\* one turn of the while loop: the candidate is invalid and count < 10
Halve ==
    /\ pc = "search"
    /\ ~targetIsValid
    /\ count < BINARY_SEARCH_ITERATIONS
    /\ targetPoint' = midpoint(targetPoint, currentPoint)
    /\ count' = count + 1
    /\ UNCHANGED <<planeVars, meshVars, runVars, checkMode, data, pc, iterations, i, vId,
                   currentPoint, differentialCoordinates, sweepStart, returned>>

\* the exit of the while loop and the if that follows: the vertex is set
\* when count < BINARY_SEARCH_ITERATIONS
Commit ==
    /\ pc = "search"
    /\ ~(~targetIsValid /\ count < BINARY_SEARCH_ITERATIONS)
    /\ data' = IF count < BINARY_SEARCH_ITERATIONS
               THEN [data EXCEPT !.restoredMesh = setVertex(data.restoredMesh, vId, targetPoint)]
               ELSE data
    /\ vId' = vId + 1
    /\ pc' = "vertex"
    /\ UNCHANGED <<planeVars, meshVars, runVars, checkMode, iterations, i, count,
                   currentPoint, targetPoint, differentialCoordinates, sweepStart, returned>>

\* the return of restoreFrequenciesValidHeightfields and ++i
SweepEnd ==
    /\ pc = "vertex"
    /\ vId >= numberVertices(data.restoredMesh)
    /\ i' = i + 1
    /\ pc' = "loop"
    /\ UNCHANGED <<planeVars, meshVars, runVars, checkMode, data, iterations, vId, count,
                   currentPoint, targetPoint, differentialCoordinates, sweepStart, returned>>

\* RestoreEnd without the copy of the non-visible faces
RestoreEndTwoCopies ==
    /\ pc = "loop"
    /\ i >= iterations
    /\ data' = [data EXCEPT !.restoredMeshAssociation = data.association,
                            !.restoredMeshVisibility = data.visibility]
    /\ pc' = "restored"
    /\ UNCHANGED <<planeVars, meshVars, runVars, checkMode, loopVars, returned>>

\* after the loop: the normals and the bounding box are recomputed (both
\* derived from the vertices) and the three restored fields are copied
RestoreEnd ==
    /\ pc = "loop"
    /\ i >= iterations
    /\ data' = [data EXCEPT !.restoredMeshAssociation = data.association,
                            !.restoredMeshNonVisibleFaces = data.nonVisibleFaces,
                            !.restoredMeshVisibility = data.visibility]
    /\ pc' = "restored"
    /\ UNCHANGED <<planeVars, meshVars, runVars, checkMode, loopVars, returned>>


(***************************************************************************)
(* checkVisibilityAfterFrequenciesAreRestored                              *)
(***************************************************************************)
\* the 32-bit unsigned value of a - b as the pair <<high, low>> of its
\* 16-bit halves
unsignedDifference(a, b) ==
    IF a >= b
    THEN <<(a - b) \div 65536, (a - b) % 65536>>
    ELSE <<65535 - ((b - a - 1) \div 65536), 65535 - ((b - a - 1) % 65536)>>

\* the faces whose row restoredMeshAssociation[faceId] is not a row of the
\* new matrix: the read is outside the storage of the matrix
facesReadOutside(visibility, restoredMeshAssociation) ==
    {faceId \in DOMAIN restoredMeshAssociation :
        restoredMeshAssociation[faceId] \notin DOMAIN visibility}

\* the loop over restoredMeshAssociation; below is the set of the faces read
\* outside the matrix whose value happens to be < 1
RECURSIVE recheckFrom(_, _, _, _, _)
recheckFrom(visibility, restoredMeshAssociation, below, faceId, restoredMeshNonVisibleFaces) ==
    IF faceId >= Cardinality(DOMAIN restoredMeshAssociation)
    THEN restoredMeshNonVisibleFaces
    ELSE LET row  == restoredMeshAssociation[faceId]
             less == IF row \in DOMAIN visibility
                     THEN visibility[row][faceId] < 1
                     ELSE faceId \in below
         IN  recheckFrom(visibility, restoredMeshAssociation, below, faceId + 1,
                         IF less THEN Append(restoredMeshNonVisibleFaces, faceId)
                                 ELSE restoredMeshNonVisibleFaces)

\* recheckedData with the list written to nonVisibleFaces
recheckedDataInPlace(d, r, below) ==
    [d EXCEPT !.restoredMeshVisibility = r.visibility,
              !.nonVisibleFaces =
                  recheckFrom(r.visibility, d.restoredMeshAssociation, below, 0, <<>>)]

\* the fields of data after the call, for the visibility r of the restored
\* mesh
recheckedData(d, r, below) ==
    [d EXCEPT !.restoredMeshVisibility = r.visibility,
              !.restoredMeshNonVisibleFaces =
                  recheckFrom(r.visibility, d.restoredMeshAssociation, below, 0, <<>>)]

CheckVisibilityAfterFrequenciesAreRestored ==
    /\ pc = "restored"
    /\ \E mode \in CheckModes :
          \E r \in {getVisibility(data.restoredMesh, (Cardinality(DOMAIN data.directions) - 2) \div 2,
                                  heightfieldAngle, TRUE, data.minExtremes, data.maxExtremes,
                                  mode, <<>>)} :
          LET outside == facesReadOutside(r.visibility, data.restoredMeshAssociation)
          IN  /\ checkMode' = mode
              /\ IF (r.fault \/ outside # {}) /\ build = "debug"
                 THEN /\ pc' = "aborted"
                      /\ data' = data
                      /\ returned' = returned
                 ELSE /\ pc' = "rechecked"
                      /\ \E below \in SUBSET outside :
                            /\ data' = recheckedData(data, r, below)
                            /\ returned' = unsignedDifference(
                                   Len(data'.restoredMeshNonVisibleFaces),
                                   Len(data.nonVisibleFaces))
    /\ UNCHANGED <<planeVars, meshVars, runVars, loopVars>>

Next ==
    \/ SelectExtremes /\ UNCHANGED <<entireVars, angleVars>>
    \/ CheckVisibility /\ UNCHANGED <<entireVars, angleVars>>
    \/ GetAssociation /\ UNCHANGED <<entireVars, angleVars>>
    \/ RestoreBegin /\ UNCHANGED <<entireVars, angleVars>>
    \/ SweepBegin /\ UNCHANGED <<entireVars, angleVars>>
    \/ VertexBegin /\ UNCHANGED <<entireVars, angleVars>>
    \/ Halve /\ UNCHANGED <<entireVars, angleVars>>
    \/ Commit /\ UNCHANGED <<entireVars, angleVars>>
    \/ SweepEnd /\ UNCHANGED <<entireVars, angleVars>>
    \/ RestoreEnd /\ UNCHANGED <<entireVars, angleVars>>
    \/ CheckVisibilityAfterFrequenciesAreRestored /\ UNCHANGED <<entireVars, angleVars>>

Spec == Init /\ [][Next]_vars


(***************************************************************************)
(* Properties of the restoration                                           *)
(***************************************************************************)
\* the faces of mesh whose normal does not reach the limit with the
\* direction the association gives them
violatingFaces(mesh) ==
    {fId \in FaceIds(mesh) :
        ~dotGeqLimit(faceNormal(mesh, fId), data.directions[data.association[fId]],
                     heightfieldAngle)}

\* what a step taken inside a sweep does to the constraint
sweepStepKeepsHeightfield ==
    pc \in {"vertex", "search"} =>
        /\ violatingFaces(data'.restoredMesh) \subseteq violatingFaces(data.restoredMesh)
        /\ data'.restoredMesh # data.restoredMesh =>
              \A fId \in vertexFaceAdjacencies(originalMesh, vId) :
                  dotGeqLimit(faceNormal(data'.restoredMesh, fId),
                              data.directions[data.association[fId]], heightfieldAngle)

\* C1: a step of a sweep that changes the target mesh moves one vertex to a
\* position where every face incident to it has a normal whose dot product
\* with the face's assigned direction reaches the limit, and no step of a
\* sweep adds a face to the set of the faces that violate the limit.
RestorationKeepsHeightfield == [][sweepStepKeepsHeightfield]_vars

\* C1 witness: a vertex has just been moved to a candidate that was accepted
\* after earlier candidates had been refused
MovedAfterHalving ==
    /\ pc = "vertex"
    /\ vId > 0
    /\ count \in 1..(BINARY_SEARCH_ITERATIONS - 1)
    /\ data.restoredMesh.v[vId - 1] = targetPoint
    /\ targetPoint # currentPoint


\* the while loop as a function: the last candidate and the final count,
\* validated against the positions of readMesh
RECURSIVE binarySearch(_, _, _, _, _)
binarySearch(readMesh, v, target, current, n) ==
    IF /\ ~isHeightFieldValid(readMesh, data.directions, data.association, v, target,
                              heightfieldAngle, originalMesh)
       /\ n < BINARY_SEARCH_ITERATIONS
    THEN binarySearch(readMesh, v, midpoint(target, current), current, n + 1)
    ELSE [targetPoint |-> target, count |-> n]

\* the position vertex v has after its turn, computed from readMesh
positionAfterTurn(readMesh, v) ==
    LET found == binarySearch(readMesh, v,
                              getTargetPoint(readMesh, differentialCoordinates, v, originalMesh),
                              readMesh.v[v], 0)
    IN  IF found.count < BINARY_SEARCH_ITERATIONS THEN found.targetPoint ELSE readMesh.v[v]

\* every vertex computed from the positions of mesh, all moves committed
\* together
simultaneousSweep(mesh) ==
    [mesh EXCEPT !.v = [v \in VertexIds(mesh) |-> positionAfterTurn(mesh, v)]]

\* the vertices from v on taken in index order, each computed from the mesh
\* as the vertices before it have left it
RECURSIVE sweepInOrder(_, _)
sweepInOrder(mesh, v) ==
    IF v >= numberVertices(mesh)
    THEN mesh
    ELSE sweepInOrder(setVertex(mesh, v, positionAfterTurn(mesh, v)), v + 1)

sweepDone == pc = "vertex" /\ vId >= numberVertices(data.restoredMesh)

movedInSweep == {v \in VertexIds(sweepStart) : data.restoredMesh.v[v] # sweepStart.v[v]}

exitTakesAcceptedCandidate ==
    (pc = "search" /\ pc' = "vertex" /\ targetIsValid) =>
        data'.restoredMesh.v[vId] = targetPoint

\* C3: the vertex is moved to the first candidate that passes validation; a
\* candidate that the validation accepts is never discarded, so the vertex
\* keeps its position only if every validated candidate failed.
AcceptedCandidateIsTaken == [][exitTakesAcceptedCandidate]_vars


insideRestoration == pc \in {"loop", "vertex", "search"}

\* the steps one vertex can take: VertexBegin, the halving steps, Commit
stepsOfVertex == BINARY_SEARCH_ITERATIONS + 2

\* the steps one sweep can take: SweepBegin, its vertices, SweepEnd
stepsOfSweep == numberVertices(originalMesh) * stepsOfVertex + 2

\* a bound on the steps restoreFrequencies has still to take
stepsLeft ==
    LET laterVertices(v) == (numberVertices(originalMesh) - v) * stepsOfVertex
    IN  CASE pc = "loop"   -> (iterations - i) * stepsOfSweep + 1
          [] pc = "vertex" -> (iterations - i - 1) * stepsOfSweep + 1 + laterVertices(vId) + 1
          [] pc = "search" -> (iterations - i - 1) * stepsOfSweep + 1 + laterVertices(vId + 1) + 1
                                  + (BINARY_SEARCH_ITERATIONS - count) + 1
          [] OTHER         -> 0

\* a step inside restoreFrequencies uses up one of the steps left, keeps the
\* halving count within its bound and ends only after `iterations` sweeps
restorationStepDescends ==
    insideRestoration =>
        /\ stepsLeft' < stepsLeft
        /\ stepsLeft' >= 0
        /\ count' <= BINARY_SEARCH_ITERATIONS
        /\ pc' = "restored" => i' = iterations'

\* C4: the validation loop of a vertex makes at most BINARY_SEARCH_ITERATIONS
\* halving steps, and restoreFrequencies terminates, after exactly
\* `iterations` sweeps: every step inside it lowers a bound on the steps it
\* has left, which is never negative.
RestorationTerminates == [][restorationStepDescends]_vars

\* C4 witness: restoreFrequencies has returned after two sweeps or more, the
\* last vertex having exhausted its halving steps
RestoredAfterExhaustedSearch ==
    /\ pc = "restored"
    /\ iterations >= 2
    /\ count = BINARY_SEARCH_ITERATIONS


(***************************************************************************)
(* Frame of restoreFrequencies                                             *)
(***************************************************************************)
\* what a step of restoreFrequencies, from its entry to its return, leaves
\* alone, and what its return has set
restoreFrequenciesFrame ==
    (pc = "associated" \/ insideRestoration) =>
        /\ data'.association = data.association
        /\ data'.visibility = data.visibility
        /\ data'.nonVisibleFaces = data.nonVisibleFaces
        /\ smoothedMesh' = smoothedMesh
        /\ originalMesh' = originalMesh
        /\ data'.restoredMesh.f = smoothedMesh.f
        /\ DOMAIN data'.restoredMesh.v = DOMAIN smoothedMesh.v
        /\ pc' = "restored" =>
              /\ data'.restoredMeshAssociation = data.association
              /\ data'.restoredMeshVisibility = data.visibility
              /\ data'.restoredMeshNonVisibleFaces = data.nonVisibleFaces

ReturnedWithinFaceCount ==
    pc = "rechecked" =>
        /\ returned[1] = 0
        /\ returned[2] <= numberFaces(data.restoredMesh)


\* what the recheck leaves alone
recheckFrame ==
    pc = "restored" =>
        /\ data'.visibility = data.visibility
        /\ data'.nonVisibleFaces = data.nonVisibleFaces
        /\ data'.association = data.association
        /\ data'.restoredMeshAssociation = data.restoredMeshAssociation
        /\ data'.directions = data.directions
        /\ data'.angles = data.angles
        /\ data'.minExtremes = data.minExtremes
        /\ data'.maxExtremes = data.maxExtremes
        /\ data'.restoredMesh = data.restoredMesh
        /\ smoothedMesh' = smoothedMesh
        /\ originalMesh' = originalMesh

\* C7: checkVisibilityAfterFrequenciesAreRestored writes only
\* data.restoredMeshVisibility and data.restoredMeshNonVisibleFaces: the
\* visibility, the non-visible faces, the association, the restored
\* association, the directions, the extremes and the restored mesh are the
\* same after the call as before it.
RecheckIsPureDiagnostic == [][recheckFrame]_vars

\* C7 witness: the recheck has returned with a matrix and a list that differ
\* from those of the first check
RecheckedDiffers ==
    /\ pc = "rechecked"
    /\ data.restoredMeshVisibility # data.visibility
    /\ data.restoredMeshNonVisibleFaces # data.nonVisibleFaces
    /\ data.restoredMesh # smoothedMesh


(***************************************************************************)
(* Properties of getVisibility                                             *)
(***************************************************************************)
\* C8: in the matrix getVisibility has produced for the smoothed mesh, an
\* entry (d, f) equal to 1 means that the normal of face f has a dot product
\* with directions[d] that reaches the cosine of the heightfield angle; this
\* for the rotational rows and the two x rows, in both modes, with
\* includeXDirections true or false.
VisibleImpliesWithinLimit ==
    \A d \in DOMAIN data.visibility : \A f \in DOMAIN data.visibility[d] :
        data.visibility[d][f] = 1 =>
            dotGeqLimit(faceNormal(smoothedMesh, f), data.directions[d], heightfieldAngle)


otherMode(mode) == IF mode = "RAYSHOOTING" THEN "PROJECTION" ELSE "RAYSHOOTING"

\* the rows of the rotational directions
rotationalRows(visibility) == {d \in DOMAIN visibility : d < sizeX(visibility) - 2}

\* the matrix the other strategy computes for the mesh, the directions and
\* the angle of the last check
otherStrategyVisibility ==
    computeVisibilityProjectionRay(smoothedMesh, sizeX(data.visibility) - 2, heightfieldAngle,
                                   FALSE, data.minExtremes, data.maxExtremes,
                                   otherMode(checkMode)).visibility

\* C9: for the same mesh, direction and heightfield angle the ray-shooting
\* strategy and the projection strategy mark exactly the same faces: every
\* rotational row of the matrix a check has produced is the row the other
\* strategy produces.
StrategiesAgree ==
    pc = "visible" =>
        \A d \in rotationalRows(data.visibility) :
            data.visibility[d] = otherStrategyVisibility[d]


\* the faces whose column of the matrix has no entry equal to 1
zeroColumns(visibility) ==
    {f \in FaceIds(smoothedMesh) : \A d \in DOMAIN visibility : visibility[d][f] # 1}

\* C10: once getVisibility has returned, data.nonVisibleFaces holds exactly
\* the faces whose column of data.visibility has no 1, each once and in
\* ascending order, whatever the list held before the call; the columns of
\* these faces stay without a 1.
NonVisibleFacesAreZeroColumns ==
    data.visibility # <<>> =>
        /\ {data.nonVisibleFaces[k] : k \in DOMAIN data.nonVisibleFaces}
               = zeroColumns(data.visibility)
        /\ Len(data.nonVisibleFaces) = Cardinality(zeroColumns(data.visibility))
        /\ \A k \in DOMAIN data.nonVisibleFaces :
               k > 1 => data.nonVisibleFaces[k - 1] < data.nonVisibleFaces[k]

\* C10 witness: a check has returned with some faces non-visible and some
\* visible
SomeFacesNonVisible ==
    /\ pc = "visible"
    /\ data.nonVisibleFaces # <<>>
    /\ Len(data.nonVisibleFaces) < numberFaces(smoothedMesh)
    /\ data.nonVisibleFaces[1] > 0



(***************************************************************************)
(* fouraxis.cpp: checkPlane and checkVisibilityAllPlanes                   *)
(***************************************************************************)
\* the number of planes of the runs: 180 / numberPlanes degrees is a
\* multiple of a quarter turn
PlaneCounts == {1, 2}

\* the orders in which the AABB tree may hand back the faces it finds
TreeOrders == {"ascending", "descending"}

\* (x, y, z) -> (x, z, y): the projection along y read as one along z
swapYZ(p) == <<p[1], p[3], p[2]>>

\* tree.getIntersectEigenFaces for the segment along y through the
\* barycentre of face fId, from above the bounding box to below it
yIntersection(mesh, fId) ==
    {g \in FaceIds(mesh) :
        segmentMeetsTriangle(swapYZ(barycenter3(mesh, fId)),
                             swapYZ(mesh.v[mesh.f[g][1]]), swapYZ(mesh.v[mesh.f[g][2]]),
                             swapYZ(mesh.v[mesh.f[g][3]]))}

RECURSIVE listOf(_, _)
listOf(S, order) ==
    IF S = {}
    THEN <<>>
    ELSE LET first == IF order = "ascending"
                      THEN CHOOSE g \in S : \A h \in S : g <= h
                      ELSE CHOOSE g \in S : \A h \in S : g >= h
         IN  <<first>> \o listOf(S \ {first}, order)

\* the vector blackList the tree fills for face fId
blackListOf(mesh, fId, order) == listOf(yIntersection(mesh, fId), order)

\* mesh.getVertex(mesh.getFace(i).y()).y(): the y of the second vertex of fId
secondVertexY(mesh, fId) == mesh.v[mesh.f[fId][2]][2]

\* maxYFace: the loop over list from its element k on
RECURSIVE maxYFaceFrom(_, _, _, _)
maxYFaceFrom(list, mesh, k, max) ==
    IF k > Len(list)
    THEN max
    ELSE maxYFaceFrom(list, mesh, k + 1,
                      IF secondVertexY(mesh, list[k]) > secondVertexY(mesh, max)
                      THEN list[k] ELSE max)

maxYFace(list, mesh) == maxYFaceFrom(list, mesh, 1, list[1])

RECURSIVE minYFaceFrom(_, _, _, _)
minYFaceFrom(list, mesh, k, min) ==
    IF k > Len(list)
    THEN min
    ELSE minYFaceFrom(list, mesh, k + 1,
                      IF secondVertexY(mesh, list[k]) < secondVertexY(mesh, min)
                      THEN list[k] ELSE min)

minYFace(list, mesh) == minYFaceFrom(list, mesh, 1, list[1])

\* checkPlane: the loop over the faces from face k on
RECURSIVE checkPlaneFrom(_, _, _, _, _, _)
checkPlaneFrom(visibility, mesh, indexPlane, nPlanes, order, k) ==
    IF k >= numberFaces(mesh)
    THEN visibility
    ELSE checkPlaneFrom(
             IF yIntersection(mesh, k) # {}
             THEN [visibility EXCEPT
                      ![indexPlane][maxYFace(blackListOf(mesh, k, order), mesh)] = 1,
                      ![nPlanes + indexPlane][minYFace(blackListOf(mesh, k, order), mesh)] = 1]
             ELSE visibility,
             mesh, indexPlane, nPlanes, order, k + 1)

checkPlane(visibility, mesh, indexPlane, nPlanes, order) ==
    checkPlaneFrom(visibility, mesh, indexPlane, nPlanes, order, 0)

\* 180 / numberPlanes (an integer division) degrees, in quarter turns
planeStepQuarters(nPlanes) == (180 \div nPlanes) \div 90

\* the loop over the planes from plane k on: checkPlane, then the rotation
\* of the copy of the mesh about x
RECURSIVE allPlanesFrom(_, _, _, _, _)
allPlanesFrom(visibility, meshEigen, nPlanes, order, k) ==
    IF k >= nPlanes
    THEN visibility
    ELSE CHOOSE out \in
             {allPlanesFrom(checked, meshRotateX(meshEigen, planeStepQuarters(nPlanes)),
                            nPlanes, order, k + 1) :
                 checked \in {checkPlane(visibility, meshEigen, k, nPlanes, order)}} : TRUE

\* the last loop with the test of found left out: the last row is set for
\* every face
forceLastRow(visibility) ==
    [r \in DOMAIN visibility |->
        [j \in DOMAIN visibility[r] |->
            IF r = sizeX(visibility) - 1 THEN 1 ELSE visibility[r][j]]]

\* the last loop: a face with no 1 in its column gets one in the last row
forceUncovered(visibility) ==
    [r \in DOMAIN visibility |->
        [j \in DOMAIN visibility[r] |->
            IF /\ r = sizeX(visibility) - 1
               /\ ~\E q \in DOMAIN visibility : visibility[q][j] = 1
            THEN 1
            ELSE visibility[r][j]]]

checkVisibilityAllPlanes(mesh, nPlanes, order) ==
    CHOOSE out \in
        {forceUncovered(checked) :
            checked \in {allPlanesFrom(zeroMatrix(nPlanes * 2 + 1, numberFaces(mesh)),
                                       mesh, nPlanes, order, 0)}} : TRUE


(***************************************************************************)
(* A run of the functions of fouraxis.cpp on the smoothed mesh             *)
(***************************************************************************)
restorationVars == <<data, checkMode, pc, loopVars, returned>>

FourAxisInit ==
    /\ \E scene \in Scenes :
          /\ originalMesh = scene.original
          /\ smoothedMesh = scene.smoothed
    /\ data = emptyData
    /\ heightfieldAngle \in HeightfieldLimits
    /\ build \in Builds
    /\ checkMode = "PROJECTION"
    /\ pc = "start"
    /\ iterations = 0
    /\ i = 0
    /\ vId = 0
    /\ count = 0
    /\ currentPoint = ZeroVec
    /\ targetPoint = ZeroVec
    /\ differentialCoordinates = <<>>
    /\ sweepStart = emptyMesh
    /\ returned = <<0, 0>>
    /\ planePc = "start"
    /\ numberPlanes \in PlaneCounts
    /\ planeVisibility = <<>>
    /\ survivedPlanes = <<>>
    /\ segmentation = <<>>
    /\ gurobi \in BOOLEAN
    /\ caught = {}
    /\ stepAngle = 0
    /\ rotations = 0
    /\ args = noArguments
    /\ called = <<>>

\* checkVisibilityAllPlanes(mesh, visibility, numberPlanes), in a run that
\* takes its matrix from it and not from getVisibility
CheckVisibilityAllPlanes ==
    /\ planePc = "start"
    /\ pc = "start"
    /\ \E order \in TreeOrders :
          planeVisibility' = checkVisibilityAllPlanes(smoothedMesh, numberPlanes, order)
    /\ planePc' = "visible"
    /\ UNCHANGED <<meshVars, runVars, restorationVars, numberPlanes, survivedPlanes,
                   segmentation, gurobi, caught>>


(***************************************************************************)
(* fouraxis.cpp: minimizeNumberPlanes                                      *)
(***************************************************************************)
\* the constraints model.addConstr(sum >= 1), one for every triangle: the
\* selected orientations X give every column a 1
satisfiesConstraints(visibility, X) ==
    \A t \in DOMAIN visibility[0] : \E j \in X : visibility[j][t] = 1

\* model.optimize() with the objective GRB_MINIMIZE of the sum of the
\* orientations: the selections of the least size among the feasible ones
optimalSelections(visibility) ==
    LET feasible == {X \in SUBSET DOMAIN visibility : satisfiesConstraints(visibility, X)}
    IN  {X \in feasible : \A Y \in feasible : Cardinality(X) <= Cardinality(Y)}

\* What the try block can come to: an exception (from the environment, the
\* model or the optimization, or from reading the attribute X of a model
\* that has no solution), or the optimal selection the solver has found.
solverOutcomes(visibility) ==
    {[thrown |-> TRUE, selected |-> {}]} \cup
    {[thrown |-> FALSE, selected |-> X] : X \in optimalSelections(visibility)}

\* survivedPlanes after the call: cleared, then filled in ascending order by
\* the read-back loop, left as it is by the catch blocks, or filled with
\* every orientation where the solver is not compiled in
minimizeNumberPlanes(visibility, gurobiDefined, outcome) ==
    IF gurobiDefined
    THEN IF outcome.thrown THEN <<>> ELSE listOf(outcome.selected, "ascending")
    ELSE listOf(DOMAIN visibility, "ascending")

\* minimizeNumberPlanes(survivedPlanes, visibility) on the matrix of
\* checkVisibilityAllPlanes
MinimizeNumberPlanes ==
    /\ planePc = "visible"
    /\ \E outcome \in solverOutcomes(planeVisibility) :
          /\ survivedPlanes' = minimizeNumberPlanes(planeVisibility, gurobi, outcome)
          /\ caught' = IF gurobi /\ outcome.thrown THEN caught \cup {"GRBException"} ELSE caught
    /\ planePc' = "minimized"
    /\ UNCHANGED <<meshVars, runVars, restorationVars, numberPlanes, planeVisibility,
                   segmentation, gurobi>>


\* getTargetDirections(setCoverage, data): the minimizer on the matrix of
\* getVisibility, or every direction kept when setCoverage is false
GetTargetDirections(setCoverage) ==
    /\ pc = "visible"
    /\ planePc = "start"
    /\ planeVisibility' = data.visibility
    /\ \E outcome \in solverOutcomes(data.visibility) :
          /\ survivedPlanes' = IF setCoverage
                               THEN minimizeNumberPlanes(data.visibility, gurobi, outcome)
                               ELSE listOf(DOMAIN data.visibility, "ascending")
          /\ caught' = IF setCoverage /\ gurobi /\ outcome.thrown
                       THEN caught \cup {"GRBException"} ELSE caught
    /\ planePc' = "minimized"
    /\ UNCHANGED <<meshVars, runVars, restorationVars, numberPlanes, segmentation, gurobi>>

(***************************************************************************)
(* fouraxis.cpp: getAssociation                                            *)
(***************************************************************************)
\* cg3::libigl::getFaceAdjacences: two faces that share an edge
faceAdjacent(mesh, f, g) ==
    /\ f # g
    /\ Cardinality({mesh.f[f][k] : k \in 1..3} \cap {mesh.f[g][k] : k \in 1..3}) = 2

\* the pairs handed to gc->setNeighbors: every adjacent pair once
neighborPairs(mesh) ==
    {pr \in FaceIds(mesh) \X FaceIds(mesh) : pr[1] < pr[2] /\ faceAdjacent(mesh, pr[1], pr[2])}

\* record.cost: 100000 for a face the plane does not see, 0 otherwise
dataCost(visibility, plane, f) == IF visibility[plane][f] = 0 THEN 100000 ELSE 0

\* smoothTerm
smoothTerm(label1, label2) == IF label1 = label2 THEN 0 ELSE 2

\* the energy of a labeling: the data costs of the faces and the smooth
\* costs of the pairs of neighbours
energy(mesh, visibility, planes, labeling) ==
    100000 * Cardinality({f \in FaceIds(mesh) :
                             dataCost(visibility, planes[labeling[f] + 1], f) # 0})
    + 2 * Cardinality({pr \in neighborPairs(mesh) :
                          smoothTerm(labeling[pr[1]], labeling[pr[2]]) # 0})

\* the labelings an alpha-beta swap can reach from labeling: the faces of
\* label alpha or beta are split anew between the two labels
swapMoves(mesh, labeling, alpha, beta) ==
    LET swapped == {f \in FaceIds(mesh) : labeling[f] \in {alpha, beta}}
    IN  {[f \in FaceIds(mesh) |->
             IF f \in toAlpha THEN alpha
             ELSE IF f \in swapped THEN beta ELSE labeling[f]] : toAlpha \in SUBSET swapped}

\* gc->swap(-1) has converged: no swap of two labels lowers the energy
swapConverged(mesh, visibility, planes, labeling) ==
    \A alpha, beta \in 1..Len(planes) :
        alpha < beta =>
            \A l \in swapMoves(mesh, labeling, alpha - 1, beta - 1) :
                energy(mesh, visibility, planes, l) >= energy(mesh, visibility, planes, labeling)

\* The labelings to look at.  The cost 100000 of one face not seen is more
\* than the smooth cost 2 of all the pairs together, so a labeling that has
\* converged gives every face some plane sees a label of such a plane.
zeroCostLabels(visibility, planes, f) ==
    LET seeing == {l \in 0..(Len(planes) - 1) : visibility[planes[l + 1]][f] # 0}
    IN  IF seeing = {} THEN 0..(Len(planes) - 1) ELSE seeing

RECURSIVE zeroCostLabelings(_, _, _, _)
zeroCostLabelings(mesh, visibility, planes, f) ==
    IF f >= numberFaces(mesh)
    THEN {<<>>}
    ELSE {<<l>> \o rest : l \in zeroCostLabels(visibility, planes, f),
                          rest \in zeroCostLabelings(mesh, visibility, planes, f + 1)}

\* what gc->whatLabel can give once gc->swap(-1) has returned
convergedLabelings(mesh, visibility, planes) ==
    {l \in {[f \in FaceIds(mesh) |-> q[f + 1]] :
                q \in zeroCostLabelings(mesh, visibility, planes, 0)} :
        swapConverged(mesh, visibility, planes, l)}


\* the faces of the largest mesh the labelings are enumerated for
MaxLabelledFaces == 4

\* What the try block of getAssociation can come to: a GCException (always
\* with no label to give), or the labeling the swaps have converged to.
labelingOutcomes(mesh, visibility, planes) ==
    {[thrown |-> TRUE, labeling |-> <<>>]} \cup
    {[thrown |-> FALSE, labeling |-> l] : l \in convergedLabelings(mesh, visibility, planes)}

\* getAssociation with a segmentation that grows by push_back in the loop
\* over gc->whatLabel
getAssociationPushBack(mesh, outcome) ==
    IF outcome.thrown
    THEN <<>>
    ELSE [f \in FaceIds(mesh) |-> outcome.labeling[f]]

\* the vector returned: segmentation(n_triangles) starts as n_triangles
\* zeros, and the loop over gc->whatLabel writes it when nothing is thrown
getAssociation(mesh, outcome) ==
    IF outcome.thrown
    THEN [f \in FaceIds(mesh) |-> 0]
    ELSE [f \in FaceIds(mesh) |-> outcome.labeling[f]]

\* getAssociation(survivedPlanes, visibility, mesh)
AssociatePlanes ==
    /\ planePc = "minimized"
    /\ numberFaces(smoothedMesh) <= MaxLabelledFaces
    /\ \E outcome \in labelingOutcomes(smoothedMesh, planeVisibility, survivedPlanes) :
          /\ segmentation' = getAssociation(smoothedMesh, outcome)
          /\ caught' = IF outcome.thrown THEN caught \cup {"GCException"} ELSE caught
    /\ planePc' = "associated"
    /\ UNCHANGED <<meshVars, runVars, restorationVars, numberPlanes, planeVisibility,
                   survivedPlanes, gurobi>>

FourAxisNext ==
    \/ CheckVisibilityAllPlanes /\ UNCHANGED <<entireVars, angleVars>>
    \/ MinimizeNumberPlanes /\ UNCHANGED <<entireVars, angleVars>>
    \/ planePc = "start" /\ SelectExtremes /\ UNCHANGED <<entireVars, angleVars>>
    \/ planePc = "start" /\ CheckVisibility /\ UNCHANGED <<entireVars, angleVars>>
    \/ \E setCoverage \in BOOLEAN : GetTargetDirections(setCoverage) /\ UNCHANGED <<entireVars, angleVars>>
    \/ AssociatePlanes /\ UNCHANGED <<entireVars, angleVars>>

FourAxisSpec == FourAxisInit /\ [][FourAxisNext]_vars


(***************************************************************************)
(* Properties of checkVisibilityAllPlanes                                  *)
(***************************************************************************)
\* the rows of index < 2 * numberPlanes that have a 1 for face j
planeRowsSeeing(j) ==
    {r \in DOMAIN planeVisibility : r < 2 * numberPlanes /\ planeVisibility[r][j] = 1}

\* C11: after checkVisibilityAllPlanes the matrix has 2 * numberPlanes + 1
\* rows, every face has at least one entry equal to 1, and the last row is
\* 1 for a face exactly when no row of index < 2 * numberPlanes is 1 for it.
AllPlanesCoverEveryFace ==
    planePc = "visible" =>
        /\ sizeX(planeVisibility) = 2 * numberPlanes + 1
        /\ \A j \in FaceIds(smoothedMesh) :
              /\ \E r \in DOMAIN planeVisibility : planeVisibility[r][j] = 1
              /\ planeVisibility[2 * numberPlanes][j] = 1 <=> planeRowsSeeing(j) = {}

\* checkVisibilityAllPlanes has returned a matrix whose last row is 1 for
\* some face and 0 for another
LastRowForcedForSomeFace ==
    /\ planePc = "visible"
    /\ \E j \in FaceIds(smoothedMesh) : planeVisibility[2 * numberPlanes][j] = 1
    /\ \E j \in FaceIds(smoothedMesh) : planeVisibility[2 * numberPlanes][j] = 0


(***************************************************************************)
(* Properties of getVisibility as a function of its arguments              *)
(***************************************************************************)
\* the four output fields of a Data d, or of a result of getVisibility
outputFields(d) == <<d.visibility, d.directions, d.angles, d.nonVisibleFaces>>

\* a call of getVisibility that has returned leaves the outputs that the
\* same call gives on a Data whose output fields are empty
callIgnoresOldOutputs ==
    (pc \in {"extremes", "visible"} /\ pc' = "visible") =>
        \E includeXDirections \in BOOLEAN :
            outputFields(data') =
                outputFields(getVisibility(smoothedMesh, sizeX(data'.visibility) - 2,
                                           heightfieldAngle, includeXDirections,
                                           data.minExtremes, data.maxExtremes, checkMode', <<>>))

facesSeenByPlanes ==
    {f \in FaceIds(smoothedMesh) : \E r \in DOMAIN planeVisibility : planeVisibility[r][f] = 1}

\* the faces some survived plane sees
facesSeenBySurvived ==
    {f \in FaceIds(smoothedMesh) :
        \E k \in 1..Len(survivedPlanes) : planeVisibility[survivedPlanes[k]][f] = 1}

\* C13: whatever the outcome of minimizeNumberPlanes (solver succeeding,
\* solver throwing, solver not compiled in), the survived list covers every
\* face that has a 1 in its visibility column.
SurvivedPlanesCover ==
    planePc \in {"minimized", "associated"} => facesSeenByPlanes \subseteq facesSeenBySurvived

\* C14: when the solver is not compiled in or has thrown, the list
\* returned is that of all the direction indices 0..nOrientations-1.
FailureKeepsAllDirections ==
    (planePc = "minimized" /\ (~gurobi \/ "GRBException" \in caught)) =>
        survivedPlanes = listOf(DOMAIN planeVisibility, "ascending")


\* the faces no direction sees: the all-zero columns of the matrix
hiddenFaces == FaceIds(smoothedMesh) \ facesSeenByPlanes

\* C15: a face that no direction sees is recorded in the non-visible set
\* and makes neither the minimizer nor the assigner fail: the minimizer
\* returns a list that covers the remaining faces, and the assigner returns
\* a label of that list for every face.
HiddenFaceDoesNotFail ==
    (pc = "visible" /\ planePc \in {"minimized", "associated"} /\ hiddenFaces # {}) =>
        /\ \A f \in hiddenFaces : \E k \in 1..Len(data.nonVisibleFaces) : data.nonVisibleFaces[k] = f
        /\ facesSeenByPlanes \subseteq facesSeenBySurvived
        /\ planePc = "associated" =>
              /\ DOMAIN segmentation = FaceIds(smoothedMesh)
              /\ \A f \in FaceIds(smoothedMesh) : segmentation[f] \in 0..(Len(survivedPlanes) - 1)


(***************************************************************************)
(* Properties of getTargetDirections with set coverage                     *)
(***************************************************************************)
\* the number of directions the visibility of Data was computed for: the
\* matrix has this many rows and the two rows of -x and +x
nDirectionsOf(visibility) == sizeX(visibility) - 2

\* getTargetDirections runs with setCoverage on a matrix in which every
\* face is seen by some direction
coverageOfVisibleMesh ==
    /\ GetTargetDirections(TRUE)
    /\ \A f \in FaceIds(smoothedMesh) : \E r \in DOMAIN data.visibility : data.visibility[r][f] = 1

\* the list left has at most nDirections entries and covers every face
atMostNDirectionsCover ==
    coverageOfVisibleMesh =>
        /\ Len(survivedPlanes') <= nDirectionsOf(data.visibility)
        /\ \A f \in FaceIds(smoothedMesh) :
              \E k \in 1..Len(survivedPlanes') : data.visibility[survivedPlanes'[k]][f] = 1

\* C16: for a mesh every face of which is visible from some candidate
\* direction, getTargetDirections with set coverage on nDirections
\* directions (8 in the scenario) leaves a survived list of at most
\* nDirections entries that covers every face.
CoverageKeepsAtMostNDirections == [][atMostNDirectionsCover]_vars



(***************************************************************************)
(* Properties of getAssociation                                            *)
(***************************************************************************)
\* C17: the association returned by getAssociation is total and
\* single-valued: its keys are the face indices 0..faceCount-1, each with
\* one label, on the normal path and when the energy solver has thrown.
AssociationIsTotal ==
    planePc = "associated" =>
        /\ DOMAIN segmentation = 0..(numberFaces(smoothedMesh) - 1)
        /\ \A f \in DOMAIN segmentation : segmentation[f] \in Nat

\* getAssociation has returned after the energy solver has thrown
AssociatedAfterException ==
    /\ planePc = "associated"
    /\ "GCException" \in caught
    /\ numberFaces(smoothedMesh) = 4

\* C18: a failure of the energy solver in getAssociation is passed on to
\* the caller as fatal for the run: no association is returned after it.
SolverFailureReturnsNoAssociation ==
    "GCException" \in caught => (planePc # "associated" /\ segmentation = <<>>)



(***************************************************************************)
(* faf_optimalrotation.cpp: rotateToOptimalOrientation                     *)
(***************************************************************************)
\* one quarter turn about the z axis: (x, y, z) -> (-y, x, z)
rotZ90(p) == <<-p[2], p[1], p[3]>>

meshRotateZ90(mesh) == [mesh EXCEPT !.v = [k \in DOMAIN mesh.v |-> rotZ90(mesh.v[k])]]

\* The rotations cg3::globalOptimalRotationMatrix is taken to return: none,
\* or the quarter turn about z or about y.
OptimalRotations == {"identity", "zQuarter", "yQuarter"}

\* EigenMesh::rotate(rot)
meshRotate(mesh, rot) ==
    CASE rot = "identity" -> mesh
      [] rot = "zQuarter" -> meshRotateZ90(mesh)
      [] rot = "yQuarter" -> meshRotateY90(mesh)

\* the bounding box of a mesh along one axis (1 = x, 2 = y, 3 = z)
boxMin(mesh, axis) ==
    CHOOSE m \in {mesh.v[k][axis] : k \in VertexIds(mesh)} :
        \A k \in VertexIds(mesh) : m <= mesh.v[k][axis]

boxMax(mesh, axis) ==
    CHOOSE m \in {mesh.v[k][axis] : k \in VertexIds(mesh)} :
        \A k \in VertexIds(mesh) : m >= mesh.v[k][axis]

\* BoundingBox::getLengthX, getLengthY, getLengthZ
boxLength(mesh, axis) == boxMax(mesh, axis) - boxMin(mesh, axis)

\* BoundingBox::center, for a box whose centre is a point of the grid
boxCenter(mesh) ==
    <<(boxMin(mesh, 1) + boxMax(mesh, 1)) \div 2,
      (boxMin(mesh, 2) + boxMax(mesh, 2)) \div 2,
      (boxMin(mesh, 3) + boxMax(mesh, 3)) \div 2>>

\* EigenMesh::translate
meshTranslate(mesh, t) == [mesh EXCEPT !.v = [k \in DOMAIN mesh.v |-> Add(mesh.v[k], t)]]

\* the quarter turn that follows the optimal rotation, decided on the box b
\* of the original mesh and applied to both meshes
canonicalTurn(b, mesh) ==
    IF boxLength(b, 2) > boxLength(b, 1) /\ boxLength(b, 2) > boxLength(b, 3)
    THEN meshRotateZ90(mesh)
    ELSE IF boxLength(b, 3) > boxLength(b, 1) /\ boxLength(b, 3) > boxLength(b, 2)
         THEN meshRotateY90(mesh)
         ELSE mesh

\* mesh.translate(-mesh.getBoundingBox().center())
toCenter(mesh) == meshTranslate(mesh, Neg(boxCenter(mesh)))

\* the two meshes after rotateToOptimalOrientation, rot being the matrix
\* of globalOptimalRotationMatrix
rotateToOptimalOrientation(mesh, smoothed, rot) ==
    [mesh         |-> toCenter(canonicalTurn(meshRotate(mesh, rot), meshRotate(mesh, rot))),
     smoothedMesh |-> toCenter(canonicalTurn(meshRotate(mesh, rot), meshRotate(smoothed, rot)))]

(***************************************************************************)
(* fouraxisfabrication.cpp: computeEntireAlgorithm                         *)
(***************************************************************************)
\* computeEntireAlgorithm without the call of detectNonVisibleFaces
computeEntireAlgorithmNoDetection ==
    <<"rotateToOptimalOrientation", "selectExtremesOnXAxis",
      "initializeDataForVisibilityCheck", "checkVisibility",
      "getTargetDirections", "getOptimizedAssociation", "restoreFrequencies",
      "cutComponents">>

\* the calls of computeEntireAlgorithm, in the order of its statements
computeEntireAlgorithm ==
    <<"rotateToOptimalOrientation", "selectExtremesOnXAxis",
      "initializeDataForVisibilityCheck", "checkVisibility", "detectNonVisibleFaces",
      "getTargetDirections", "getOptimizedAssociation", "restoreFrequencies",
      "cutComponents">>

\* the statement control has reached, the calls made so far having returned
nextCall ==
    IF Len(called) < Len(computeEntireAlgorithm)
    THEN computeEntireAlgorithm[Len(called) + 1]
    ELSE "return"

\* control is at the call of stage and makes it
call(stage) ==
    /\ nextCall = stage
    /\ called' = Append(called, stage)
    /\ args' = args
    /\ UNCHANGED angleVars

\* a mesh on a grid of half the step: every bounding box has its centre on
\* the grid
doubled(mesh) == [mesh EXCEPT !.v = [k \in DOMAIN mesh.v |-> Add(mesh.v[k], mesh.v[k])]]

\* the sweeps asked for in a run of computeEntireAlgorithm
MaxRunIterations == 1

EntireScenes ==
    {[original |-> doubled(scene.original), smoothed |-> doubled(scene.smoothed)] :
        scene \in Scenes}

EntireInit ==
    /\ \E scene \in EntireScenes :
          /\ originalMesh = scene.original
          /\ smoothedMesh = scene.smoothed
    /\ data = emptyData
    /\ heightfieldAngle \in HeightfieldLimits
    /\ build \in Builds
    /\ checkMode = "PROJECTION"
    /\ pc = "start"
    /\ iterations = 0
    /\ i = 0
    /\ vId = 0
    /\ count = 0
    /\ currentPoint = ZeroVec
    /\ targetPoint = ZeroVec
    /\ differentialCoordinates = <<>>
    /\ sweepStart = emptyMesh
    /\ returned = <<0, 0>>
    /\ planePc = "start"
    /\ numberPlanes = 0
    /\ planeVisibility = <<>>
    /\ survivedPlanes = <<>>
    /\ segmentation = <<>>
    /\ gurobi = FALSE
    /\ caught = {}
    /\ stepAngle = 0
    /\ rotations = 0
    /\ args \in [nDirections : DirectionCounts, fixExtremeAssociation : BOOLEAN,
                 setCoverage : BOOLEAN]
    /\ called = <<>>

\* rotateToOptimalOrientation(mesh, smoothedMesh, nOrientations, deterministic)
RotateToOptimalOrientation ==
    /\ pc = "start"
    /\ call("rotateToOptimalOrientation")
    /\ \E rot \in OptimalRotations :
          \E r \in {rotateToOptimalOrientation(originalMesh, smoothedMesh, rot)} :
              /\ originalMesh' = r.mesh
              /\ smoothedMesh' = r.smoothedMesh
    /\ UNCHANGED <<planeVars, runVars, restorationVars>>

\* selectExtremesOnXAxis(smoothedMesh, data)
SelectExtremesOnXAxis ==
    /\ call("selectExtremesOnXAxis")
    /\ SelectExtremes

\* The association before the optimisation: -1 for a face that is not
\* pinned; with fixExtremeAssociation the index of -x for a face of
\* minExtremes and of +x for a face of maxExtremes.  A face of both sets
\* gets the index both.
preAssociation(mesh, nDirections, fixExtremeAssociation, minExtremes, maxExtremes, both) ==
    [f \in FaceIds(mesh) |->
        LET inMin == \E k \in 1..Len(minExtremes) : minExtremes[k] = f
            inMax == \E k \in 1..Len(maxExtremes) : maxExtremes[k] = f
        IN  IF ~fixExtremeAssociation THEN -1
            ELSE IF inMin /\ inMax THEN both
            ELSE IF inMin THEN nDirections
            ELSE IF inMax THEN nDirections + 1
            ELSE -1]

\* initializeDataForVisibilityCheck(smoothedMesh, nDirections,
\* fixExtremeAssociation, data)
InitializeDataForVisibilityCheck ==
    /\ pc = "extremes"
    /\ call("initializeDataForVisibilityCheck")
    /\ \E both \in {args.nDirections, args.nDirections + 1} :
          data' = [data EXCEPT !.association =
                      preAssociation(smoothedMesh, args.nDirections, args.fixExtremeAssociation,
                                     data.minExtremes, data.maxExtremes, both)]
    /\ UNCHANGED <<planeVars, meshVars, runVars, checkMode, pc, loopVars, returned>>

\* checkVisibility(smoothedMesh, nDirections, data, checkMode): getVisibility
\* for the direction count of the run
CheckVisibilityOfRun ==
    /\ pc = "extremes"
    /\ call("checkVisibility")
    /\ \E includeXDirections \in BOOLEAN, mode \in CheckModes :
          \E r \in {getVisibility(smoothedMesh, args.nDirections, heightfieldAngle,
                                  includeXDirections, data.minExtremes, data.maxExtremes,
                                  mode, data.nonVisibleFaces)} :
              /\ checkMode' = mode
              /\ IF r.fault /\ build = "debug"
                 THEN /\ pc' = "aborted"
                      /\ data' = data
                 ELSE /\ pc' = "visible"
                      /\ data' = [data EXCEPT !.visibility = r.visibility,
                                              !.directions = r.directions,
                                              !.angles = r.angles,
                                              !.nonVisibleFaces = r.nonVisibleFaces]
    /\ UNCHANGED <<planeVars, meshVars, runVars, loopVars, returned>>

\* detectNonVisibleFaces(data)
DetectNonVisibleFaces ==
    /\ pc = "visible"
    /\ call("detectNonVisibleFaces")
    /\ data' = [data EXCEPT !.nonVisibleFaces =
                   detectNonVisibleFaces(data.visibility, numberFaces(smoothedMesh),
                                         data.nonVisibleFaces)]
    /\ UNCHANGED <<planeVars, meshVars, runVars, checkMode, pc, loopVars, returned>>

\* getTargetDirections(setCoverage, data)
GetTargetDirectionsOfRun ==
    /\ call("getTargetDirections")
    /\ GetTargetDirections(args.setCoverage)

\* getOptimizedAssociation(smoothedMesh, compactness, limitAngle, data):
\* a pinned face keeps its direction, any other face gets its label
GetOptimizedAssociation ==
    /\ pc = "visible"
    /\ call("getOptimizedAssociation")
    /\ \E choice \in {"first", "last"} :
          data' = [data EXCEPT !.association =
                      [f \in FaceIds(smoothedMesh) |->
                          IF data.association[f] >= 0
                          THEN data.association[f]
                          ELSE labelOf(data.visibility, f, choice)]]
    /\ pc' = "associated"
    /\ UNCHANGED <<planeVars, meshVars, runVars, checkMode, loopVars, returned>>

\* restoreFrequencies(mesh, data, frequenciesIterations, smoothedMesh): the
\* call; the stage runs until RestoreEnd
RestoreFrequencies ==
    /\ call("restoreFrequencies")
    /\ RestoreBegin
    /\ iterations' <= MaxRunIterations

\* cutComponents(smoothedMesh, data): the hand-over of the mesh and of Data
CutComponents ==
    /\ pc = "restored"
    /\ call("cutComponents")
    /\ UNCHANGED <<planeVars, meshVars, runVars, restorationVars>>

EntireNext ==
    \/ RotateToOptimalOrientation
    \/ SelectExtremesOnXAxis
    \/ InitializeDataForVisibilityCheck
    \/ CheckVisibilityOfRun
    \/ DetectNonVisibleFaces
    \/ GetTargetDirectionsOfRun
    \/ GetOptimizedAssociation
    \/ RestoreFrequencies
    \/ SweepBegin /\ UNCHANGED <<entireVars, angleVars>>
    \/ VertexBegin /\ UNCHANGED <<entireVars, angleVars>>
    \/ Halve /\ UNCHANGED <<entireVars, angleVars>>
    \/ Commit /\ UNCHANGED <<entireVars, angleVars>>
    \/ SweepEnd /\ UNCHANGED <<entireVars, angleVars>>
    \/ RestoreEnd /\ UNCHANGED <<entireVars, angleVars>>
    \/ CutComponents

EntireSpec == EntireInit /\ [][EntireNext]_vars



(***************************************************************************)
(* Properties of a run of computeEntireAlgorithm                           *)
(***************************************************************************)
\* the stages that have been called
stagesCalled == {called[k] : k \in 1..Len(called)}

\* the faces of a list of extremes
facesOf(extremes) == {extremes[k] : k \in 1..Len(extremes)}

StagesInOrder ==
    <<"rotateToOptimalOrientation", "selectExtremesOnXAxis",
      "initializeDataForVisibilityCheck", "checkVisibility", "detectNonVisibleFaces",
      "getTargetDirections", "getOptimizedAssociation", "restoreFrequencies",
      "cutComponents">>

\* C20: computeEntireAlgorithm runs the stages once each and in the order
\* orientation, extreme selection, visibility initialization, visibility
\* check, non-visible detection, target-direction selection, association,
\* frequency restoration, component cutting: at every moment the stages
\* called are the first ones of that order, none skipped or repeated, and a
\* stage is called only when the previous one has returned and left its
\* outputs (the restoration loop runs under restoreFrequencies alone, the
\* association is total before the restoration starts, the restored fields
\* are filled before the components are cut).
StagesRunOnceInOrder ==
    /\ Len(called) <= Len(StagesInOrder)
    /\ \A k \in 1..Len(called) : called[k] = StagesInOrder[k]
    /\ pc \in {"loop", "vertex", "search"} => called[Len(called)] = "restoreFrequencies"
    /\ "checkVisibility" \in stagesCalled => DOMAIN data.association = FaceIds(smoothedMesh)
    /\ "getOptimizedAssociation" \in stagesCalled => planePc = "minimized"
    /\ "restoreFrequencies" \in stagesCalled =>
          \A f \in FaceIds(smoothedMesh) : data.association[f] \in DOMAIN data.directions
    /\ "cutComponents" \in stagesCalled =>
          /\ pc = "restored"
          /\ data.restoredMeshAssociation = data.association

\* a run has gone through its nine stages, with a sweep of the restoration
RunCompleted ==
    /\ nextCall = "return"
    /\ Len(called) = 9
    /\ iterations = 1
    /\ pc = "restored"



(***************************************************************************)
(* fouraxis.cpp: findOptimalRotation, and the orientation step on its own  *)
(***************************************************************************)
\* The two meshes after findOptimalRotation(m, m2), rot being the matrix of
\* Orientation::optimalOrientation.  m2 is translated by the centre of the
\* box of m, read after m has been translated: the centre m had before
\* (boxIsStale, the box not following the translation) or the origin.
findOptimalRotation(m, m2, rot, boxIsStale) ==
    [mesh         |-> toCenter(canonicalTurn(meshRotate(m, rot), meshRotate(m, rot))),
     smoothedMesh |-> meshTranslate(canonicalTurn(meshRotate(m, rot), meshRotate(m2, rot)),
                         IF boxIsStale
                         THEN Neg(boxCenter(canonicalTurn(meshRotate(m, rot), meshRotate(m, rot))))
                         ELSE ZeroVec)]

\* the scenes of the orientation step: those of a run, and a wedge whose
\* box is as long along y as along z and shorter along x
OrientationScenes ==
    EntireScenes \cup
    {[original |-> makeMesh(<<<<0, 0, 0>>, <<6, 0, 0>>, <<0, 12, 0>>, <<0, 0, 12>>>>, TetraFaces),
      smoothed |-> makeMesh(<<<<0, 0, 0>>, <<6, 0, 0>>, <<0, 12, 0>>, <<0, 0, 8>>>>, TetraFaces)]}

OrientationInit ==
    /\ \E scene \in OrientationScenes :
          /\ originalMesh = scene.original
          /\ smoothedMesh = scene.smoothed
    /\ data = emptyData
    /\ heightfieldAngle \in HeightfieldLimits
    /\ build \in Builds
    /\ checkMode = "PROJECTION"
    /\ pc = "start"
    /\ iterations = 0
    /\ i = 0
    /\ vId = 0
    /\ count = 0
    /\ currentPoint = ZeroVec
    /\ targetPoint = ZeroVec
    /\ differentialCoordinates = <<>>
    /\ sweepStart = emptyMesh
    /\ returned = <<0, 0>>
    /\ planePc = "start"
    /\ numberPlanes = 0
    /\ planeVisibility = <<>>
    /\ survivedPlanes = <<>>
    /\ segmentation = <<>>
    /\ gurobi = FALSE
    /\ caught = {}
    /\ stepAngle = 0
    /\ rotations = 0
    /\ args = noArguments
    /\ called = <<>>

\* findOptimalRotation(m, m2)
FindOptimalRotation ==
    /\ planePc = "start"
    /\ pc = "start"
    /\ called = <<>>
    /\ \E rot \in OptimalRotations, boxIsStale \in BOOLEAN :
          \E r \in {findOptimalRotation(originalMesh, smoothedMesh, rot, boxIsStale)} :
              /\ originalMesh' = r.mesh
              /\ smoothedMesh' = r.smoothedMesh
    /\ planePc' = "oriented"
    /\ UNCHANGED <<runVars, restorationVars, numberPlanes, planeVisibility, survivedPlanes,
                   segmentation, gurobi, caught, entireVars, angleVars>>

\* the orientation step by either function, and the extremes of the mesh
\* it leaves
OrientationNext ==
    \/ RotateToOptimalOrientation
    \/ FindOptimalRotation
    \/ (called # <<>> \/ planePc = "oriented") /\ SelectExtremes /\ UNCHANGED <<entireVars, angleVars>>

OrientationSpec == OrientationInit /\ [][OrientationNext]_vars

(***************************************************************************)
(* Properties of the orientation step                                      *)
(***************************************************************************)
\* a step of rotateToOptimalOrientation or of findOptimalRotation
orientationStep == called = <<>> /\ planePc = "start" /\ (called' # <<>> \/ planePc' = "oriented")

\* the mesh moved so that the low corner of its box is the origin
atLowCorner(mesh) ==
    meshTranslate(mesh, Neg(<<boxMin(mesh, 1), boxMin(mesh, 2), boxMin(mesh, 3)>>))

\* the centre of the box of the mesh is the origin
centredAtOrigin(mesh) == \A axis \in 1..3 : boxMin(mesh, axis) + boxMax(mesh, axis) = 0

\* after is before turned by rot and then by turn, and translated
rotatedBy(before, after, rot, turn) ==
    atLowCorner(after) = atLowCorner(meshRotate(meshRotate(before, rot), turn))

orientationRotatesAlikeAndCentres ==
    orientationStep =>
        /\ \E rot \in OptimalRotations, turn \in OptimalRotations :
              /\ rotatedBy(originalMesh, originalMesh', rot, turn)
              /\ rotatedBy(smoothedMesh, smoothedMesh', rot, turn)
        /\ centredAtOrigin(originalMesh')
        /\ centredAtOrigin(smoothedMesh')

\* C21: after the orientation step (rotateToOptimalOrientation, and
\* likewise findOptimalRotation) both meshes have received the same
\* rotations and each has the centre of its bounding box at the origin.
OrientationRotatesAlikeAndCentres == [][orientationRotatesAlikeAndCentres]_vars



orientationMakesXLongest ==
    orientationStep =>
        /\ boxLength(originalMesh', 1) >= boxLength(originalMesh', 2)
        /\ boxLength(originalMesh', 1) >= boxLength(originalMesh', 3)

\* C24: after the quarter turn of the orientation step the extent of the
\* bounding box along x is the largest of the three, for every combination
\* of extents, ties between the y and the z extent included.
OrientationMakesXLongest == [][orientationMakesXLongest]_vars



(***************************************************************************)
(* Properties of checkVisibilityAfterFrequenciesAreRestored                *)
(***************************************************************************)
\* the faces for which the matrix has no 1 at the row of their direction
facesWithoutOne(visibility, association) ==
    {f \in DOMAIN association :
        ~(association[f] \in DOMAIN visibility /\ visibility[association[f]][f] = 1)}

\* C22: after checkVisibilityAfterFrequenciesAreRestored the list
\* restoredMeshNonVisibleFaces holds exactly the faces f for which the new
\* matrix has no 1 at (restoredMeshAssociation[f], f), each once, in
\* ascending order.
RecheckListsFacesWithoutOne ==
    pc = "rechecked" =>
        data.restoredMeshNonVisibleFaces =
            listOf(facesWithoutOne(data.restoredMeshVisibility, data.restoredMeshAssociation),
                   "ascending")

\* C26: the matrix the recheck stores has as many rows as data.directions
\* has entries, so every value of restoredMeshAssociation is a row of it.
RecheckKeepsTheDirections ==
    pc = "rechecked" =>
        /\ sizeX(data.restoredMeshVisibility) = Cardinality(DOMAIN data.directions)
        /\ \A f \in DOMAIN data.restoredMeshAssociation :
              data.restoredMeshAssociation[f] \in DOMAIN data.restoredMeshVisibility



(***************************************************************************)
(* Properties of the association as the restoration reads it               *)
(***************************************************************************)
\* C23: the value getAssociation stores for a face, read as an index into
\* the direction sequence (a row of the visibility matrix), is a valid
\* index of it and denotes the direction chosen for the face, the plane
\* survivedPlanes[label].
AssociationDenotesChosenDirection ==
    planePc = "associated" =>
        \A f \in FaceIds(smoothedMesh) :
            /\ segmentation[f] \in DOMAIN planeVisibility
            /\ segmentation[f] + 1 \in DOMAIN survivedPlanes
            /\ survivedPlanes[segmentation[f] + 1] = segmentation[f]



(***************************************************************************)
(* cutExtremes on any mesh                                                 *)
(***************************************************************************)
\* the faces keep of a mesh, renumbered 0..k-1 in ascending order: an open
\* surface when keep is a proper subset, the empty mesh when keep is empty
subMesh(mesh, keep) ==
    [v |-> mesh.v,
     f |-> [k \in 0..(Cardinality(keep) - 1) |-> mesh.f[listOf(keep, "ascending")[k + 1]]]]

\* cutExtremes takes any cg3::EigenMesh: closed solids, open surfaces and
\* the mesh with no face
subMeshes(mesh) == {subMesh(mesh, keep) : keep \in SUBSET FaceIds(mesh)}

ExtremeMeshes == UNION {subMeshes(scene.smoothed) \cup subMeshes(scene.original) : scene \in Scenes}

ExtremesInit ==
    /\ smoothedMesh \in ExtremeMeshes
    /\ originalMesh = smoothedMesh
    /\ data = emptyData
    /\ heightfieldAngle \in HeightfieldLimits
    /\ build \in Builds
    /\ checkMode = "PROJECTION"
    /\ pc = "start"
    /\ iterations = 0
    /\ i = 0
    /\ vId = 0
    /\ count = 0
    /\ currentPoint = ZeroVec
    /\ targetPoint = ZeroVec
    /\ differentialCoordinates = <<>>
    /\ sweepStart = emptyMesh
    /\ returned = <<0, 0>>
    /\ planePc = "start"
    /\ numberPlanes = 0
    /\ planeVisibility = <<>>
    /\ survivedPlanes = <<>>
    /\ segmentation = <<>>
    /\ gurobi = FALSE
    /\ caught = {}
    /\ stepAngle = 0
    /\ rotations = 0
    /\ args = noArguments
    /\ called = <<>>

\* cutExtremes(m, minExtreme, maxExtreme) as selectExtremesOnXAxis calls it
CutExtremes == SelectExtremes /\ UNCHANGED <<entireVars, angleVars>>

ExtremesNext == CutExtremes

ExtremesSpec == ExtremesInit /\ [][ExtremesNext]_vars

\* normal . (1, 0, 0) of a face
xDot(mesh, fId) == Dot(faceNormal(mesh, fId), <<1, 0, 0>>)

\* the longest run of positions 1..k of a face list whose faces all have a
\* negative (sign = -1) or positive (sign = 1) dot product with the x-axis
runLength(mesh, faces, sign) ==
    CHOOSE k \in 0..Len(faces) :
        /\ \A j \in 1..k : sign * xDot(mesh, faces[j]) > 0
        /\ k = Len(faces) \/ ~(sign * xDot(mesh, faces[k + 1]) > 0)

reversed(faces) == [j \in 1..Len(faces) |-> faces[Len(faces) - j + 1]]

\* C25: cutExtremes returns as minExtreme the maximal run of faces from the
\* low end of the centroid order whose normal has a negative dot product
\* with the x-axis, and as maxExtreme the maximal run from the high end
\* whose normal has a positive dot product with the x-axis.
ExtremesAreTheSignedRuns ==
    pc = "extremes" =>
        LET fIndices == sortedByCentroid(smoothedMesh, FaceIds(smoothedMesh))
        IN  /\ data.minExtremes = SubSeq(fIndices, 1, runLength(smoothedMesh, fIndices, -1))
            /\ data.maxExtremes = SubSeq(reversed(fIndices), 1,
                                         runLength(smoothedMesh, reversed(fIndices), 1))

\* C27: on every mesh both walks of cutExtremes end having read only
\* positions inside the sorted face list.
WalksStayInsideTheFaceList == pc # "aborted"

\* C28: no face is placed in both minExtreme and maxExtreme.
ExtremesAreDisjoint ==
    pc = "extremes" => facesOf(data.minExtremes) \cap facesOf(data.maxExtremes) = {}



(***************************************************************************)
(* The assertions of ray shooting                                          *)
(***************************************************************************)
\* a step of getVisibility in ray-shooting mode that ends at a failed
\* assertion of getVisibilityRayShootingOnZ
rayShootingAssertionFails ==
    /\ pc \in {"extremes", "visible"}
    /\ checkMode' = "RAYSHOOTING"
    /\ pc' = "aborted"

noRayShootingAssertionFails == ~rayShootingAssertionFails

\* C29: the assertions of getVisibilityRayShootingOnZ hold for every target
\* face and heightfield angle (at least 2 intersected faces, maxZFace >= 0,
\* minZFace >= 0): no ray-shooting check of a build with assertions ends at
\* a failed assertion.
RayShootingAssertionsHold == [][noRayShootingAssertionFails]_vars

(***************************************************************************)
(* The rotation loop of checkVisibilityAllPlanes, for any number of planes *)
(***************************************************************************)
\* the greatest number of planes asked for
MaxNumberPlanes == 16

\* 180 / numberPlanes: both operands are int, the quotient is truncated
\* before it is stored in the double
stepAngleOf(nPlanes) == 180 \div nPlanes

StepInit ==
    /\ \E scene \in Scenes :
          /\ originalMesh = scene.original
          /\ smoothedMesh = scene.smoothed
    /\ data = emptyData
    /\ heightfieldAngle \in HeightfieldLimits
    /\ build \in Builds
    /\ checkMode = "PROJECTION"
    /\ pc = "start"
    /\ iterations = 0
    /\ i = 0
    /\ vId = 0
    /\ count = 0
    /\ currentPoint = ZeroVec
    /\ targetPoint = ZeroVec
    /\ differentialCoordinates = <<>>
    /\ sweepStart = emptyMesh
    /\ returned = <<0, 0>>
    /\ planePc = "start"
    /\ numberPlanes \in 1..MaxNumberPlanes
    /\ planeVisibility = <<>>
    /\ survivedPlanes = <<>>
    /\ segmentation = <<>>
    /\ gurobi = FALSE
    /\ caught = {}
    /\ args = noArguments
    /\ called = <<>>
    /\ stepAngle = 0
    /\ rotations = 0

\* double stepAngle = 180 / numberPlanes and the rotation matrix built from it
StepAngle ==
    /\ planePc = "start"
    /\ stepAngle' = stepAngleOf(numberPlanes)
    /\ rotations' = 0
    /\ planePc' = "stepping"
    /\ UNCHANGED <<meshVars, runVars, restorationVars, numberPlanes, planeVisibility,
                   survivedPlanes, segmentation, gurobi, caught, entireVars>>

\* one turn of for(int i = 0; i < numberPlanes; i++): meshEigen.rotate(rotation)
RotatePlane ==
    /\ planePc = "stepping"
    /\ rotations < numberPlanes
    /\ rotations' = rotations + 1
    /\ UNCHANGED <<meshVars, runVars, restorationVars, planeVars, entireVars, stepAngle>>

\* the loop ends at i = numberPlanes
PlanesDone ==
    /\ planePc = "stepping"
    /\ rotations >= numberPlanes
    /\ planePc' = "rotated"
    /\ UNCHANGED <<meshVars, runVars, restorationVars, numberPlanes, planeVisibility,
                   survivedPlanes, segmentation, gurobi, caught, entireVars, angleVars>>

StepNext ==
    \/ StepAngle
    \/ RotatePlane
    \/ PlanesDone

StepSpec == StepInit /\ [][StepNext]_vars

\* C30: the step angle times numberPlanes is 180 degrees for every
\* numberPlanes >= 1: after the loop of checkVisibilityAllPlanes the copy of
\* the mesh has been turned by half a circle.
RotationsSweepHalfCircle ==
    planePc = "rotated" => rotations * stepAngle = 180


=============================================================================
